---- MODULE Spec2Model ----
(***************************************************************************)
(* Firesync propagation subsystem: the per-path last-writer-wins state     *)
(* machine run by propagator.Propagate against a Firestore-like datastore  *)
(* (document + tombstone sibling) and a publish/subscribe topic.           *)
(*                                                                         *)
(* One document path is modelled.  Time is a natural number.  The          *)
(* datastore assigns every committed write the next value of its commit    *)
(* clock as the written document's update time; a LastUpdateTime           *)
(* precondition is an equality test against that update time.              *)
(***************************************************************************)
EXTENDS Naturals, FiniteSets, Sequences, TLC

\* Bounds of the model.
MaxClock == 5

\* Configuration value cfg.TombstoneTTL handed to NewPropagator.
TombstoneTTL == 2

\* Independent request workers; two are enough for every pairwise race.
Workers == {"w1", "w2"}
Times == 1..MaxClock

\* model.EventType
EventTypeCreated == "created"
EventTypeUpdated == "updated"
EventTypeDeleted == "deleted"
EventTypeReplicated == "replicated"
EventTypeTombstone == "tombstone"

\* service.PropagationResult
PropagationResultSuccess == "success"
PropagationResultSkipped == "skipped"
PropagationResultError == "error"
NoResult == "none"

Reverse(q) == [k \in 1..Len(q) |-> q[Len(q) + 1 - k]]

\* errors.Join: nil is the empty sequence, an error the sequence of the
\* errors it wraps, in the order they were joined.
Join(a, b) == a \o b

\* The service before newService has run: no shutdown function registered,
\* Start not called, Stop not called.
NoService ==
    [main |-> "config", hasOtel |-> FALSE,
     len |-> 0, arr |-> <<"nil", "nil", "nil", "nil">>, reg |-> <<>>,
     start |-> "none", cause |-> <<>>, err |-> <<>>,
     stop |-> [pc |-> "idle", i |-> 0, entry |-> <<>>, ran |-> <<>>, ret |-> <<>>]]

VARIABLES
    clock,      \* datastore commit clock
    doc,        \* the live document of the path: [exists, ut, meta, src]
    tomb,       \* the tombstone sibling of the path: [exists, ut, ts, exp]
    pending,    \* change events emitted so far (delivered at least once, any order)
    topic,      \* wire messages published so far: [type, time]
    wk,         \* per worker: the Propagate call it runs or last ran
    raw,        \* the change payload the intake hands to model.ParseEvent
    parsed,     \* what model.ParseEvent returned for it
    http,       \* the HTTP request the intake is serving and its response
    metrics,    \* propagation event counter, per result attribute
    collection, \* the _firesync collection: tombstone documents by id
    idcall,     \* the last call of Tombstone.ID and what it returned
    svc         \* the service process: construction, Start and Stop

vars == <<clock, doc, tomb, pending, topic, wk, raw, parsed, http, metrics, collection, idcall,
          svc>>

\* Metadata.Source of the stamping database: projects/P/databases/D of the
\* event's document name; a document without _firesync has no source.
Source == "projects/P/databases/D"
NoSource == ""

NoDoc == [exists |-> FALSE, ut |-> 0, meta |-> 0, src |-> NoSource]
NoTomb == [exists |-> FALSE, ut |-> 0, ts |-> 0, exp |-> 0]
NoEvent == [type |-> "none", t |-> 0, by |-> "none"]

\* A change event as the classifier types and timestamps it.  by tells whose
\* write emitted it: a user's, or the core's own write in the named branch of
\* a sub-protocol (the event itself does not carry this).
Event(type, t) == [type |-> type, t |-> t, by |-> "user"]
CoreEvent(type, t, branch) == [type |-> type, t |-> t, by |-> branch]

\* No payload at the intake, nothing parsed.
NoRaw == [kind |-> "none"]
NotParsed == [kind |-> "none"]

\* No HTTP request at the intake; a counter that was never incremented.
NoRequest == [pc |-> "none"]
NoMetrics == [r \in {PropagationResultSuccess, PropagationResultSkipped,
                     PropagationResultError} |-> 0]

\* No call of Tombstone.ID yet.
NoCall == [kind |-> "none"]

\* Mutant: the precondition only requires the document to exist.
LastUpdateTimeExistsOnly(d, ts) == d.exists

\* Mutant: the adapter drops its ts argument and passes the zero time.
LastUpdateTimeZeroTime(d, ts) == d.exists /\ d.ut = 0

\* firestore.LastUpdateTime(ts) as applied by transactionAdapter.Update/Delete:
\* the document must exist and its update time must equal ts.
LastUpdateTime(d, ts) == d.exists /\ d.ut = ts

\* The value a transaction closure returns to Propagate.
TxOut(d, tb, publish, branch) ==
    [doc |-> d, tomb |-> tb, publish |-> publish, branch |-> branch]

\* Metadata stamped under the reserved field _firesync.
Stamp(now, e) == [exists |-> TRUE, ut |-> now, meta |-> e.t, src |-> Source]

\* Tombstone record written by a delete event.
NewTombstone(now, e) ==
    [exists |-> TRUE, ut |-> now, ts |-> e.t, exp |-> e.t + TombstoneTTL]

\* Mutant: the Created sub-protocol never looks at the tombstone.
processCreateEventNoTombstone(d, tb, now, e) ==
    IF LastUpdateTime(d, e.t)
    THEN TxOut(Stamp(now, e), tb, TRUE, "stamped")
    ELSE TxOut(d, tb, FALSE, "precondition")

\* Created sub-protocol.
processCreateEvent(d, tb, now, e) ==
    IF tb.exists /\ tb.ts > e.t
    THEN IF LastUpdateTime(d, e.t)
         THEN TxOut(NoDoc, tb, FALSE, "staleDeleted")
         ELSE TxOut(d, tb, FALSE, "precondition")
    ELSE IF LastUpdateTime(d, e.t)
         THEN TxOut(Stamp(now, e), tb, TRUE, "stamped")
         ELSE TxOut(d, tb, FALSE, "precondition")

\* Updated sub-protocol.
processUpdateEvent(d, tb, now, e) ==
    IF tb.exists /\ tb.ts > e.t
    THEN IF LastUpdateTime(d, e.t)
         THEN TxOut(NoDoc, tb, FALSE, "staleDeleted")
         ELSE TxOut(d, tb, FALSE, "precondition")
    ELSE IF LastUpdateTime(d, e.t)
         THEN TxOut(Stamp(now, e), tb, TRUE, "stamped")
         ELSE TxOut(d, tb, FALSE, "precondition")

\* Timestamp a delete event observes on a re-created document.
ObservedTimestamp(d, e) == IF d.meta # 0 THEN d.meta ELSE e.t

\* Faulty variant: an existing tombstone is refreshed whatever its timestamp.
processDeleteTombstoneNoNewerCheck(d, tb, now, e) ==
    IF tb.exists
    THEN IF LastUpdateTime(tb, e.t)
         THEN TxOut(d, NewTombstone(now, e), TRUE, "tombstoneUpdated")
         ELSE TxOut(d, tb, FALSE, "precondition")
    ELSE TxOut(d, NewTombstone(now, e), TRUE, "tombstoneCreated")

\* Deleted sub-protocol, steps 3-5: the tombstone sibling.
processDeleteTombstone(d, tb, now, e) ==
    IF tb.exists
    THEN IF tb.ts > e.t
         THEN TxOut(d, tb, FALSE, "newerTombstone")
         ELSE IF LastUpdateTime(tb, e.t)
              THEN TxOut(d, NewTombstone(now, e), TRUE, "tombstoneUpdated")
              ELSE TxOut(d, tb, FALSE, "precondition")
    ELSE TxOut(d, NewTombstone(now, e), TRUE, "tombstoneCreated")

\* Faulty variant: the Deleted sub-protocol never reads the document.
processDeleteEventNoDocumentRead(d, tb, now, e) ==
    processDeleteTombstone(d, tb, now, e)

\* Deleted sub-protocol.
processDeleteEvent(d, tb, now, e) ==
    IF d.exists
    THEN IF ObservedTimestamp(d, e) > e.t
         THEN TxOut(d, tb, FALSE, "newerDocument")
         ELSE IF LastUpdateTime(d, ObservedTimestamp(d, e))
              THEN processDeleteTombstone(NoDoc, tb, now, e)
              ELSE TxOut(d, tb, FALSE, "precondition")
    ELSE processDeleteTombstone(d, tb, now, e)

\* The closure Propagate runs inside one datastore transaction.
process(d, tb, now, e) ==
    IF e.type = EventTypeCreated THEN processCreateEvent(d, tb, now, e)
    ELSE IF e.type = EventTypeUpdated THEN processUpdateEvent(d, tb, now, e)
    ELSE processDeleteEvent(d, tb, now, e)

\* attempts, read and aborted describe the runs of the transaction closure:
\* how many there were, the commit clock the last one read at, and the
\* publish decisions of the runs whose commit was refused.
IdleWorker == [pc |-> "idle", ev |-> NoEvent, publish |-> FALSE,
               result |-> NoResult, branch |-> "none", writes |-> 0, pubs |-> 0,
               attempts |-> 0, read |-> 0, aborted |-> {}]

Init ==
    /\ clock = 0
    /\ doc = NoDoc
    /\ tomb = NoTomb
    /\ pending = {}
    /\ topic = {}
    /\ wk = [w \in Workers |-> IdleWorker]
    /\ raw = NoRaw
    /\ parsed = NotParsed
    /\ http = NoRequest
    /\ metrics = NoMetrics
    /\ collection = {}
    /\ idcall = NoCall
    /\ svc = NoService

Set(w, rec) == [wk EXCEPT ![w] = rec]

Propagated == {EventTypeCreated, EventTypeUpdated, EventTypeDeleted}

(***************************************************************************)
(* Change events.  Every committed write to the datastore emits a change   *)
(* event which the classifier (model.ParseEvent) types and timestamps.     *)
(***************************************************************************)

\* A user creates the document: no old image, no _firesync field.
UserCreate ==
    /\ ~doc.exists
    /\ clock < MaxClock
    /\ clock' = clock + 1
    /\ doc' = [exists |-> TRUE, ut |-> clock + 1, meta |-> 0, src |-> NoSource]
    /\ pending' = pending \cup {Event(EventTypeCreated, clock + 1)}
    /\ UNCHANGED <<tomb, topic, wk, raw, parsed, http, metrics, collection, idcall, svc>>

\* A user updates the document: the update mask holds user fields only, so
\* the _firesync field keeps its value.
UserUpdate ==
    /\ doc.exists
    /\ clock < MaxClock
    /\ clock' = clock + 1
    /\ doc' = [doc EXCEPT !.ut = clock + 1]
    /\ pending' = pending \cup {Event(EventTypeUpdated, clock + 1)}
    /\ UNCHANGED <<tomb, topic, wk, raw, parsed, http, metrics, collection, idcall, svc>>

\* A user deletes the document.  The change event has only an old image, so
\* its timestamp is the event time supplied by the intake, drawn from S.
UserDeleteIn(S) ==
    /\ doc.exists
    /\ clock < MaxClock
    /\ clock' = clock + 1
    /\ doc' = NoDoc
    /\ \E t \in S : pending' = pending \cup {Event(EventTypeDeleted, t)}
    /\ UNCHANGED <<tomb, topic, wk, raw, parsed, http, metrics, collection, idcall, svc>>

\* The event time is the ce-time header or the intake's wall clock, neither
\* of which is the datastore's commit clock: any time.
UserDelete == UserDeleteIn(Times)

\* The event time is the commit time of the delete.
UserDeleteCommitTime == UserDeleteIn({clock + 1})

(***************************************************************************)
(* propagator.Propagate, one worker per inbound event.                     *)
(***************************************************************************)

\* Mutant: the skip types enter the datastore transaction like any event.
PropagateSkipNoCheck(w) ==
    /\ wk[w].pc = "idle"
    /\ \E e \in pending :
        /\ e.type \in {EventTypeReplicated, EventTypeTombstone}
        /\ wk' = Set(w, [IdleWorker EXCEPT !.pc = "tx", !.ev = e])
    /\ UNCHANGED <<clock, doc, tomb, pending, topic, raw, parsed, http, metrics, collection, idcall, svc>>

\* Replicated and Tombstone events return Skipped before any I/O.
PropagateSkip(w) ==
    /\ wk[w].pc = "idle"
    /\ \E e \in pending :
        /\ e.type \in {EventTypeReplicated, EventTypeTombstone}
        /\ wk' = Set(w, [IdleWorker EXCEPT !.ev = e,
                            !.result = PropagationResultSkipped,
                            !.branch = "skipType"])
    /\ UNCHANGED <<clock, doc, tomb, pending, topic, raw, parsed, http, metrics, collection, idcall, svc>>

\* Created, Updated and Deleted events enter the datastore transaction.
PropagateBegin(w) ==
    /\ wk[w].pc = "idle"
    /\ \E e \in pending :
        /\ e.type \in Propagated
        /\ wk' = Set(w, [IdleWorker EXCEPT !.pc = "tx", !.ev = e])
    /\ UNCHANGED <<clock, doc, tomb, pending, topic, raw, parsed, http, metrics, collection, idcall, svc>>

\* Faulty variant: the change event of the stamp is classified Updated, as
\* if the classifier did not look for _firesync in the update mask.
CoreEventsStampUpdated(r, now, t) ==
    (IF doc.exists /\ ~r.doc.exists
     THEN {CoreEvent(EventTypeDeleted, t, r.branch)} ELSE {})
    \cup (IF r.doc # doc /\ r.doc.exists
          THEN {CoreEvent(EventTypeUpdated, now, r.branch)} ELSE {})
    \cup (IF r.tomb # tomb
          THEN {CoreEvent(EventTypeTombstone, now, r.branch)} ELSE {})

\* Change events emitted by the writes of a committed transaction.
CoreEvents(r, now, t) ==
    (IF doc.exists /\ ~r.doc.exists
     THEN {CoreEvent(EventTypeDeleted, t, r.branch)} ELSE {})
    \cup (IF r.doc # doc /\ r.doc.exists
          THEN {CoreEvent(EventTypeReplicated, now, r.branch)} ELSE {})
    \cup (IF r.tomb # tomb
          THEN {CoreEvent(EventTypeTombstone, now, r.branch)} ELSE {})

NumWrites(r) ==
    (IF r.doc # doc THEN 1 ELSE 0) + (IF r.tomb # tomb THEN 1 ELSE 0)

\* FirestoreClient.RunTransaction: the closure runs and commits atomically.
\* Without a publish decision Propagate returns Skipped at once.
RunTransactionIn(w, S) ==
    /\ wk[w].pc = "tx"
    /\ LET r == process(doc, tomb, clock + 1, wk[w].ev)
           n == NumWrites(r)
       IN /\ n > 0 => clock < MaxClock
          /\ clock' = IF n > 0 THEN clock + 1 ELSE clock
          /\ doc' = r.doc
          /\ tomb' = r.tomb
          /\ \E t \in S : pending' = pending \cup CoreEvents(r, clock + 1, t)
          /\ wk' = Set(w, [wk[w] EXCEPT
                            !.pc = IF r.publish THEN "publish" ELSE "idle",
                            !.publish = r.publish,
                            !.result = IF r.publish THEN NoResult
                                       ELSE PropagationResultSkipped,
                            !.branch = r.branch,
                            !.writes = n])
    /\ UNCHANGED <<topic, raw, parsed, http, metrics, collection, idcall, svc>>

RunTransaction(w) == RunTransactionIn(w, Times)

RunTransactionCommitTime(w) == RunTransactionIn(w, {clock + 1})

\* Mutant: a failed transaction is reported as Success.
TxErrorAsSuccess(w) ==
    /\ wk[w].pc = "tx"
    /\ wk' = Set(w, [wk[w] EXCEPT !.pc = "idle",
                        !.result = PropagationResultSuccess,
                        !.branch = "txError"])
    /\ UNCHANGED <<clock, doc, tomb, pending, topic, raw, parsed, http, metrics, collection, idcall, svc>>

\* The transaction fails (aborted after retries, failed read, failed decode):
\* nothing is written and Propagate returns Error.
TxError(w) ==
    /\ wk[w].pc = "tx"
    /\ wk' = Set(w, [wk[w] EXCEPT !.pc = "idle",
                        !.result = PropagationResultError,
                        !.branch = "txError"])
    /\ UNCHANGED <<clock, doc, tomb, pending, topic, raw, parsed, http, metrics, collection, idcall, svc>>

\* Wire message of an event: event-type and event-time attributes.
\* Faulty variant: the message is stamped with the zero time.
MessageUntimed(e) == [type |-> e.type, time |-> 0]

\* The wire message of an event: its event-type and event-time attributes.
Message(e) == [type |-> e.type, time |-> e.t]

\* PubSubTopic.Publish after the transaction committed with shouldPublish.
Publish(w) ==
    /\ wk[w].pc = "publish"
    /\ topic' = topic \cup {Message(wk[w].ev)}
    /\ wk' = Set(w, [wk[w] EXCEPT !.pc = "ack", !.pubs = wk[w].pubs + 1])
    /\ UNCHANGED <<clock, doc, tomb, pending, raw, parsed, http, metrics, collection, idcall, svc>>

\* PublishResult.Get returns a message id: Propagate returns Success.
PublishAck(w) ==
    /\ wk[w].pc = "ack"
    /\ wk' = Set(w, [wk[w] EXCEPT !.pc = "idle",
                        !.result = PropagationResultSuccess])
    /\ UNCHANGED <<clock, doc, tomb, pending, topic, raw, parsed, http, metrics, collection, idcall, svc>>

\* Faulty variant: a failed publish undoes the committed stamp and tombstone.
PublishErrorRollback(w) ==
    /\ wk[w].pc \in {"publish", "ack"}
    /\ wk' = Set(w, [wk[w] EXCEPT !.pc = "idle",
                        !.result = PropagationResultError])
    /\ doc' = [doc EXCEPT !.meta = 0, !.src = NoSource]
    /\ tomb' = NoTomb
    /\ UNCHANGED <<clock, pending, topic, raw, parsed, http, metrics, collection, idcall, svc>>

\* The publish fails or the request is cancelled before the acknowledgement
\* (with the message sent or not): Propagate returns Error, the committed
\* transaction stays.
PublishError(w) ==
    /\ wk[w].pc \in {"publish", "ack"}
    /\ wk' = Set(w, [wk[w] EXCEPT !.pc = "idle",
                        !.result = PropagationResultError])
    /\ UNCHANGED <<clock, doc, tomb, pending, topic, raw, parsed, http, metrics, collection, idcall, svc>>

Next ==
    \/ UserCreate
    \/ UserUpdate
    \/ UserDelete
    \/ \E w \in Workers : PropagateSkip(w)
    \/ \E w \in Workers : PropagateBegin(w)
    \/ \E w \in Workers : RunTransaction(w)
    \/ \E w \in Workers : TxError(w)
    \/ \E w \in Workers : Publish(w)
    \/ \E w \in Workers : PublishAck(w)
    \/ \E w \in Workers : PublishError(w)

Spec == Init /\ [][Next]_vars

\* The same system when every Deleted event carries the commit time of the
\* delete that emitted it (all timestamps come from the datastore's clock).
NextCommitTime ==
    \/ UserCreate
    \/ UserUpdate
    \/ UserDeleteCommitTime
    \/ \E w \in Workers : PropagateSkip(w)
    \/ \E w \in Workers : PropagateBegin(w)
    \/ \E w \in Workers : RunTransactionCommitTime(w)
    \/ \E w \in Workers : TxError(w)
    \/ \E w \in Workers : Publish(w)
    \/ \E w \in Workers : PublishAck(w)
    \/ \E w \in Workers : PublishError(w)

SpecCommitTime == Init /\ [][NextCommitTime]_vars

\* The path in state Tombstoned(ts): its document was deleted and the Deleted
\* event with timestamp ts was propagated (tombstone committed at time 1,
\* message published) before the first write this behaviour follows.
InitTombstoned ==
    /\ clock = 1
    /\ doc = NoDoc
    /\ \E ts \in Times :
          /\ tomb = NewTombstone(1, Event(EventTypeDeleted, ts))
          /\ pending = {Event(EventTypeDeleted, ts)}
          /\ topic = {Message(Event(EventTypeDeleted, ts))}
    /\ wk = [w \in Workers |-> IdleWorker]
    /\ raw = NoRaw
    /\ parsed = NotParsed
    /\ http = NoRequest
    /\ metrics = NoMetrics
    /\ collection = {}
    /\ idcall = NoCall
    /\ svc = NoService

SpecTombstoned == InitTombstoned /\ [][Next]_vars

(***************************************************************************)
(* The transaction retry loop.  The datastore runs the closure against the *)
(* state it reads and commits only when nothing it read has changed since; *)
(* otherwise it runs the closure again.  Every committed write moves the   *)
(* commit clock, so the reads are current while the clock has not moved.   *)
(***************************************************************************)

\* Faulty variant: the closure itself publishes when it decides to.
TxAttemptPublishing(w) ==
    /\ wk[w].pc = "tx"
    /\ LET r == process(doc, tomb, clock + 1, wk[w].ev)
       IN /\ wk' = Set(w, [wk[w] EXCEPT
                            !.pc = "commit",
                            !.publish = r.publish,
                            !.branch = r.branch,
                            !.read = clock,
                            !.attempts = wk[w].attempts + 1,
                            !.pubs = IF r.publish THEN wk[w].pubs + 1
                                     ELSE wk[w].pubs])
          /\ topic' = IF r.publish THEN topic \cup {Message(wk[w].ev)} ELSE topic
    /\ UNCHANGED <<clock, doc, tomb, pending, raw, parsed, http, metrics, collection, idcall, svc>>

\* One run of the closure: it reads the document and the tombstone, buffers
\* its writes and assigns shouldPublish.  Nothing is written or published.
TxAttempt(w) ==
    /\ wk[w].pc = "tx"
    /\ LET r == process(doc, tomb, clock + 1, wk[w].ev)
       IN wk' = Set(w, [wk[w] EXCEPT
                         !.pc = "commit",
                         !.publish = r.publish,
                         !.branch = r.branch,
                         !.read = clock,
                         !.attempts = wk[w].attempts + 1])
    /\ UNCHANGED <<clock, doc, tomb, pending, topic, raw, parsed, http, metrics, collection, idcall, svc>>

\* The commit is refused because the store changed after the closure read
\* it: the datastore runs the closure again.
TxRetry(w) ==
    /\ wk[w].pc = "commit"
    /\ wk[w].read # clock
    /\ wk' = Set(w, [wk[w] EXCEPT
                      !.pc = "tx",
                      !.read = 0,
                      !.aborted = wk[w].aborted \cup {wk[w].publish}])
    /\ UNCHANGED <<clock, doc, tomb, pending, topic, raw, parsed, http, metrics, collection, idcall, svc>>

\* The commit succeeds: the buffered writes of the last run are applied and
\* RunTransaction returns; Propagate then acts on shouldPublish.
TxCommit(w) ==
    /\ wk[w].pc = "commit"
    /\ wk[w].read = clock
    /\ LET r == process(doc, tomb, clock + 1, wk[w].ev)
           n == NumWrites(r)
       IN /\ n > 0 => clock < MaxClock
          /\ clock' = IF n > 0 THEN clock + 1 ELSE clock
          /\ doc' = r.doc
          /\ tomb' = r.tomb
          /\ \E t \in Times : pending' = pending \cup CoreEvents(r, clock + 1, t)
          /\ wk' = Set(w, [wk[w] EXCEPT
                            !.pc = IF wk[w].publish THEN "publish" ELSE "idle",
                            !.result = IF wk[w].publish THEN NoResult
                                       ELSE PropagationResultSkipped,
                            !.read = 0,
                            !.writes = n])
    /\ UNCHANGED <<topic, raw, parsed, http, metrics, collection, idcall, svc>>

\* The calls of Propagate followed through the retry loop; the writes that
\* make its commit fail are the users'.
RetryWorkers == {"w1"}

NextRetry ==
    \/ UserCreate
    \/ UserUpdate
    \/ UserDelete
    \/ \E w \in RetryWorkers : PropagateSkip(w)
    \/ \E w \in RetryWorkers : PropagateBegin(w)
    \/ \E w \in RetryWorkers : TxAttempt(w)
    \/ \E w \in RetryWorkers : TxRetry(w)
    \/ \E w \in RetryWorkers : TxCommit(w)
    \/ \E w \in RetryWorkers : TxError(w)
    \/ \E w \in RetryWorkers : Publish(w)
    \/ \E w \in RetryWorkers : PublishAck(w)
    \/ \E w \in RetryWorkers : PublishError(w)

SpecRetry == Init /\ [][NextRetry]_vars

(***************************************************************************)
(* The intake's classifier, model.ParseEvent.  Strings are sequences of    *)
(* tokens: "_firesync" is the reserved name, "/" and "." the separators,   *)
(* "projects", "databases" and "documents" the words of a document name,   *)
(* "x", "p" and "d" stand for any other text.                              *)
(***************************************************************************)

\* Longest document path and field path, in tokens.
MaxTokens == 3

SeqsUpTo(S, n) == UNION {[1..k -> S] : k \in 1..n}

\* strings.HasPrefix
HasPrefix(str, prefix) ==
    Len(str) >= Len(prefix) /\ SubSeq(str, 1, Len(prefix)) = prefix

\* substr occurs in str at position i.
OccursAt(str, substr, i) ==
    i + Len(substr) - 1 <= Len(str)
    /\ SubSeq(str, i, i + Len(substr) - 1) = substr

\* strings.Index(str[from:], substr), as a position of str: the first
\* position from from on where substr occurs, 0 if there is none.
Index(str, substr, from) ==
    IF \E i \in from..Len(str) : OccursAt(str, substr, i)
    THEN CHOOSE i \in from..Len(str) :
            /\ OccursAt(str, substr, i)
            /\ \A j \in from..(i - 1) : ~OccursAt(str, substr, j)
    ELSE 0

\* The constants of NewDocumentFromPath, parseDocumentName and Tombstone.ID.
projectsPrefix == <<"projects", "/">>
databasesInfix == <<"/", "databases", "/">>
documentsInfix == <<"/", "documents", "/">>

\* model.TombstoneCollection
TombstoneCollection == <<"_firesync">>

Nil == [nil |-> TRUE]

\* model.NewDocumentFromPath
NewDocumentFromPath(path) ==
    IF Index(path, projectsPrefix, 1) # 1 THEN Nil
    ELSE LET dbIdx == Index(path, databasesInfix, Len(projectsPrefix) + 1)
             docIdx == IF dbIdx = 0 THEN 0
                       ELSE Index(path, documentsInfix, dbIdx + Len(databasesInfix))
         IN IF dbIdx = 0 \/ docIdx = 0 THEN Nil
            ELSE LET projectID == SubSeq(path, Len(projectsPrefix) + 1, dbIdx - 1)
                     databaseID == SubSeq(path, dbIdx + Len(databasesInfix), docIdx - 1)
                     docPath == SubSeq(path, docIdx + Len(documentsInfix), Len(path))
                 IN IF projectID = <<>> \/ databaseID = <<>> \/ docPath = <<>>
                    THEN Nil
                    ELSE [nil |-> FALSE, ProjectID |-> projectID,
                          DatabaseID |-> databaseID, Path |-> docPath]

\* Faulty variant: any field path that starts with _firesync counts.
hasAnyFiresyncFieldsPrefix(fieldNames) ==
    \E fieldName \in fieldNames : HasPrefix(fieldName, <<"_firesync">>)

\* model.hasAnyFiresyncFields
hasAnyFiresyncFields(fieldNames) ==
    \E fieldName \in fieldNames :
        fieldName = <<"_firesync">> \/ HasPrefix(fieldName, <<"_firesync", ".">>)

ParseError(msg) == [kind |-> "error", msg |-> msg]
ParsedEvent(type, name, t) ==
    [kind |-> "event", type |-> type, name |-> name, t |-> t]

\* Faulty variant: only a written image is checked against the tombstone
\* collection; an event with only an old image is always Deleted.
ParseEventDeleteUnchecked(event, eventTime) ==
    LET docName == NewDocumentFromPath(event.name)
    IN IF ~event.value /\ ~event.old THEN ParseError("no value nor old value")
       ELSE IF docName.nil THEN ParseError("invalid document name format")
       ELSE IF ~event.value
            THEN ParsedEvent(EventTypeDeleted, docName, eventTime)
       ELSE IF HasPrefix(docName.Path, TombstoneCollection \o <<"/">>)
            THEN ParsedEvent(EventTypeTombstone, docName, event.ut)
       ELSE IF ~event.old
            THEN IF event.firesync
                 THEN ParsedEvent(EventTypeReplicated, docName, event.ut)
                 ELSE ParsedEvent(EventTypeCreated, docName, event.ut)
       ELSE IF ~event.mask.present
            THEN ParseError("no update mask in update event")
       ELSE IF hasAnyFiresyncFields(event.mask.paths)
            THEN ParsedEvent(EventTypeReplicated, docName, event.ut)
       ELSE ParsedEvent(EventTypeUpdated, docName, event.ut)

\* Faulty variant: the _firesync field and the update mask are never looked at.
ParseEventNoReplicated(event, eventTime) ==
    LET docName == NewDocumentFromPath(event.name)
    IN IF ~event.value /\ ~event.old THEN ParseError("no value nor old value")
       ELSE IF docName.nil THEN ParseError("invalid document name format")
       ELSE IF HasPrefix(docName.Path, TombstoneCollection \o <<"/">>)
            THEN ParsedEvent(EventTypeTombstone, docName,
                             IF event.value THEN event.ut ELSE eventTime)
       ELSE IF ~event.value
            THEN ParsedEvent(EventTypeDeleted, docName, eventTime)
       ELSE IF ~event.old
            THEN ParsedEvent(EventTypeCreated, docName, event.ut)
       ELSE IF ~event.mask.present
            THEN ParseError("no update mask in update event")
       ELSE ParsedEvent(EventTypeUpdated, docName, event.ut)

\* Faulty variant: every event is stamped with the supplied event time.
ParseEventEventTimeOnly(event, eventTime) ==
    LET docName == NewDocumentFromPath(event.name)
    IN IF ~event.value /\ ~event.old THEN ParseError("no value nor old value")
       ELSE IF docName.nil THEN ParseError("invalid document name format")
       ELSE IF HasPrefix(docName.Path, TombstoneCollection \o <<"/">>)
            THEN ParsedEvent(EventTypeTombstone, docName, eventTime)
       ELSE IF ~event.value
            THEN ParsedEvent(EventTypeDeleted, docName, eventTime)
       ELSE IF ~event.old
            THEN IF event.firesync
                 THEN ParsedEvent(EventTypeReplicated, docName, eventTime)
                 ELSE ParsedEvent(EventTypeCreated, docName, eventTime)
       ELSE IF ~event.mask.present
            THEN ParseError("no update mask in update event")
       ELSE IF hasAnyFiresyncFields(event.mask.paths)
            THEN ParsedEvent(EventTypeReplicated, docName, eventTime)
       ELSE ParsedEvent(EventTypeUpdated, docName, eventTime)

\* Faulty variant: an update without an update mask is an Updated event.
ParseEventMaskOptional(event, eventTime) ==
    LET docName == NewDocumentFromPath(event.name)
    IN IF ~event.value /\ ~event.old THEN ParseError("no value nor old value")
       ELSE IF docName.nil THEN ParseError("invalid document name format")
       ELSE IF HasPrefix(docName.Path, TombstoneCollection \o <<"/">>)
            THEN ParsedEvent(EventTypeTombstone, docName,
                             IF event.value THEN event.ut ELSE eventTime)
       ELSE IF ~event.value
            THEN ParsedEvent(EventTypeDeleted, docName, eventTime)
       ELSE IF ~event.old
            THEN IF event.firesync
                 THEN ParsedEvent(EventTypeReplicated, docName, event.ut)
                 ELSE ParsedEvent(EventTypeCreated, docName, event.ut)
       ELSE IF hasAnyFiresyncFields(event.mask.paths)
            THEN ParsedEvent(EventTypeReplicated, docName, event.ut)
       ELSE ParsedEvent(EventTypeUpdated, docName, event.ut)

\* Faulty variant: for a payload with both images the update checks come
\* before the tombstone-path check, the order of service.newEventType.
ParseEventUpdateFirst(event, eventTime) ==
    LET docName == NewDocumentFromPath(event.name)
    IN IF ~event.value /\ ~event.old THEN ParseError("no value nor old value")
       ELSE IF docName.nil THEN ParseError("invalid document name format")
       ELSE IF ~event.value
            THEN IF HasPrefix(docName.Path, TombstoneCollection \o <<"/">>)
                 THEN ParsedEvent(EventTypeTombstone, docName, eventTime)
                 ELSE ParsedEvent(EventTypeDeleted, docName, eventTime)
       ELSE IF ~event.old
            THEN IF HasPrefix(docName.Path, TombstoneCollection \o <<"/">>)
                 THEN ParsedEvent(EventTypeTombstone, docName, event.ut)
                 ELSE IF event.firesync
                 THEN ParsedEvent(EventTypeReplicated, docName, event.ut)
                 ELSE ParsedEvent(EventTypeCreated, docName, event.ut)
       ELSE IF ~event.mask.present
            THEN ParseError("no update mask in update event")
       ELSE IF hasAnyFiresyncFields(event.mask.paths)
            THEN ParsedEvent(EventTypeReplicated, docName, event.ut)
       ELSE IF HasPrefix(docName.Path, TombstoneCollection \o <<"/">>)
            THEN ParsedEvent(EventTypeTombstone, docName, event.ut)
       ELSE ParsedEvent(EventTypeUpdated, docName, event.ut)

\* model.ParseEvent.  event.value and event.old tell which images the
\* payload has; both images name the same document.
ParseEvent(event, eventTime) ==
    LET docName == NewDocumentFromPath(event.name)
    IN IF ~event.value
       THEN IF ~event.old THEN ParseError("no value nor old value")
            ELSE IF docName.nil
                 THEN ParseError("invalid old document name format")
            ELSE IF HasPrefix(docName.Path, TombstoneCollection \o <<"/">>)
                 THEN ParsedEvent(EventTypeTombstone, docName, eventTime)
            ELSE ParsedEvent(EventTypeDeleted, docName, eventTime)
       ELSE IF docName.nil THEN ParseError("invalid document name format")
       ELSE IF HasPrefix(docName.Path, TombstoneCollection \o <<"/">>)
            THEN ParsedEvent(EventTypeTombstone, docName, event.ut)
       ELSE IF ~event.old
            THEN IF event.firesync
                 THEN ParsedEvent(EventTypeReplicated, docName, event.ut)
                 ELSE ParsedEvent(EventTypeCreated, docName, event.ut)
       ELSE IF ~event.mask.present
            THEN ParseError("no update mask in update event")
       ELSE IF hasAnyFiresyncFields(event.mask.paths)
            THEN ParsedEvent(EventTypeReplicated, docName, event.ut)
       ELSE ParsedEvent(EventTypeUpdated, docName, event.ut)

\* Document paths (the part after /documents/) and full document names: a
\* well-formed prefix followed by a path, and malformed names.
DocumentPaths == SeqsUpTo({"_firesync", "/", "x"}, MaxTokens)
NamePrefix == <<"projects", "/", "p", "/", "databases", "/", "d", "/", "documents", "/">>
WellFormedNames == {NamePrefix \o path : path \in DocumentPaths}
\* Names with a missing prefix or infix or an empty part.
MalformedNames ==
    {NamePrefix,
     <<"p", "/", "databases", "/", "d", "/", "documents", "/", "x">>,
     <<"x", "projects", "/", "p", "/", "databases", "/", "d", "/", "documents", "/", "x">>,
     <<"projects", "/", "p", "/", "documents", "/", "x">>,
     <<"projects", "/", "p", "/", "databases", "/", "d", "/", "x">>,
     <<"projects", "/", "/", "databases", "/", "d", "/", "documents", "/", "x">>,
     <<"projects", "/", "p", "/", "databases", "/", "/", "documents", "/", "x">>}
\* Names whose project id or database id contains a slash.
SlashedNames ==
    {<<"projects", "/", "p", "/", "p", "/", "databases", "/", "d", "/", "documents", "/", "x">>,
     <<"projects", "/", "p", "/", "databases", "/", "d", "/", "d", "/", "documents", "/", "x">>,
     <<"projects", "/", "p", "/", "p", "/", "databases", "/", "d", "/", "documents", "/",
       "_firesync", "/", "x">>}
Names == WellFormedNames \cup MalformedNames \cup SlashedNames

\* Update masks: absent, or a list of field paths.
FieldPaths == SeqsUpTo({"_firesync", ".", "x"}, MaxTokens)
NoMask == [present |-> FALSE, paths |-> {}]
Masks ==
    {NoMask}
    \cup {[present |-> TRUE, paths |-> ps] :
            ps \in {{}} \cup {{f} : f \in FieldPaths}
                       \cup {{f, <<"x">>} : f \in FieldPaths}}

\* Update times of the new image and event times supplied by the intake.
IntakeTimes == 1..2

\* firestoredata.DocumentEventData as ParseEvent reads it.
Payloads ==
    [name : Names, value : BOOLEAN, old : BOOLEAN, firesync : BOOLEAN,
     ut : IntakeTimes, mask : Masks]

\* The intake holds one payload and its event time.
InitParse ==
    /\ clock = 0
    /\ doc = NoDoc
    /\ tomb = NoTomb
    /\ pending = {}
    /\ topic = {}
    /\ wk = [w \in Workers |-> IdleWorker]
    /\ raw \in [event : Payloads, eventTime : IntakeTimes]
    /\ parsed = NotParsed
    /\ http = NoRequest
    /\ metrics = NoMetrics
    /\ collection = {}
    /\ idcall = NoCall
    /\ svc = NoService

\* handler: modelEvent, err := model.ParseEvent(rawEvent, eventTime)
ParseStep ==
    /\ raw # NoRaw
    /\ parsed = NotParsed
    /\ parsed' = ParseEvent(raw.event, raw.eventTime)
    /\ UNCHANGED <<clock, doc, tomb, pending, topic, wk, raw, http, metrics, collection, idcall, svc>>

NextParse == ParseStep

SpecParse == InitParse /\ [][NextParse]_vars

(***************************************************************************)
(* The HTTP intake, handler.Propagate: decode the body, choose the event   *)
(* time, classify, call the propagator, map its outcome to a status code.  *)
(***************************************************************************)

\* service.PropagationResultUnknown
PropagationResultUnknown == "unknown"
Results ==
    {PropagationResultSuccess, PropagationResultSkipped,
     PropagationResultError, PropagationResultUnknown}

\* net/http status codes
StatusOK == 200
StatusAccepted == 202
StatusNoContent == 204
StatusBadRequest == 400
StatusUnsupportedMediaType == 415
StatusInternalServerError == 500
NoStatus == 0

\* Values of the content-type and ce-datacontenttype headers.
ContentTypes == {"", "application/protobuf", "application/json", "text/plain"}
CeDataContentTypes == {"", "application/json"}

\* Request bodies: whether reading them succeeds, the encoding they are
\* valid in ("garbage": none), and the payload they hold.
IntakePayloads ==
    [name : {NamePrefix \o <<"x">>, NamePrefix \o <<"_firesync", "/", "x">>,
             NamePrefix},
     value : BOOLEAN, old : BOOLEAN, firesync : {FALSE}, ut : {1},
     mask : {NoMask, [present |-> TRUE, paths |-> {<<"x">>}]}]
Bodies ==
    [readable : BOOLEAN,
     format : {"application/protobuf", "application/json", "garbage"},
     event : IntakePayloads]

\* Values of the ce-time header: absent, not RFC3339Nano, or a time.
CeTimes ==
    {[kind |-> "absent", t |-> 0], [kind |-> "text", t |-> 0]}
    \cup {[kind |-> "time", t |-> t] : t \in 1..3}

\* time.Parse(time.RFC3339Nano, eventTimeStr)
ParseRFC3339Nano(str) ==
    IF str.kind = "time" THEN [ok |-> TRUE, t |-> str.t]
                         ELSE [ok |-> FALSE, t |-> 0]

\* handler.parseFirestoreDocumentEventData
parseFirestoreDocumentEventData(contentType, body) ==
    IF ~body.readable THEN [err |-> "read", event |-> NoRaw]
    ELSE IF contentType \in {"application/protobuf", "application/json"}
         THEN IF body.format = contentType
              THEN [err |-> "none", event |-> body.event]
              ELSE [err |-> "unmarshal", event |-> NoRaw]
    ELSE [err |-> "unsupported", event |-> NoRaw]

\* Faulty variant: a ce-time header that parses is always used.
EventTimeHeaderAlways(now, ceTime) ==
    IF ParseRFC3339Nano(ceTime).ok THEN ParseRFC3339Nano(ceTime).t ELSE now

\* The event time handed to model.ParseEvent.
EventTime(now, ceTime) ==
    LET parsedTime == ParseRFC3339Nano(ceTime)
    IN IF ceTime.kind # "absent" /\ parsedTime.ok /\ parsedTime.t < now
       THEN parsedTime.t
       ELSE now

\* Faulty variant: forced-200 mode answers 200 whatever the outcome.
StatusForForcedFirst(result, err, force) ==
    IF force THEN StatusOK
    ELSE IF err \/ result = PropagationResultError
         THEN StatusInternalServerError
    ELSE IF result = PropagationResultSuccess THEN StatusAccepted
    ELSE IF result = PropagationResultSkipped THEN StatusNoContent
    ELSE StatusInternalServerError

\* The status code for the outcome (result, err) of svc.Propagate.
StatusFor(result, err, force) ==
    IF err \/ result = PropagationResultError
    THEN StatusInternalServerError
    ELSE IF result = PropagationResultSuccess
         THEN IF force THEN StatusOK ELSE StatusAccepted
    ELSE IF result = PropagationResultSkipped
         THEN IF force THEN StatusOK ELSE StatusNoContent
    ELSE StatusInternalServerError

\* One request was received; nothing is decoded yet.
InitIntake ==
    /\ clock = 0
    /\ doc = NoDoc
    /\ tomb = NoTomb
    /\ pending = {}
    /\ topic = {}
    /\ wk = [w \in Workers |-> IdleWorker]
    /\ raw = NoRaw
    /\ parsed = NotParsed
    /\ metrics = NoMetrics
    /\ collection = {}
    /\ idcall = NoCall
    /\ svc = NoService
    /\ http \in [pc : {"received"}, contentType : ContentTypes,
                 ceDataContentType : CeDataContentTypes, body : Bodies,
                 ceTime : CeTimes, now : IntakeTimes, force : BOOLEAN,
                 status : {NoStatus}, calls : {0},
                 result : {NoResult}, err : {FALSE}]

\* Lines 63-87: decode the body; on failure answer 400 or 415, otherwise
\* fix the event time.
IntakeDecode ==
    /\ http.pc = "received"
    /\ LET contentType == IF http.contentType = ""
                          THEN http.ceDataContentType
                          ELSE http.contentType
           out == parseFirestoreDocumentEventData(contentType, http.body)
       IN IF out.err # "none"
          THEN /\ http' = [http EXCEPT
                            !.pc = "done",
                            !.status = IF out.err = "unsupported"
                                       THEN StatusUnsupportedMediaType
                                       ELSE StatusBadRequest]
               /\ UNCHANGED raw
          ELSE /\ raw' = [event |-> out.event,
                          eventTime |-> EventTime(http.now, http.ceTime)]
               /\ http' = [http EXCEPT !.pc = "decoded"]
    /\ UNCHANGED <<clock, doc, tomb, pending, topic, wk, parsed, metrics, collection, idcall, svc>>

\* Faulty variant: the propagator is invoked before the request is rejected.
IntakeRejectInvoked ==
    /\ http.pc = "decoded"
    /\ parsed # NotParsed /\ parsed.kind = "error"
    /\ http' = [http EXCEPT !.pc = "done", !.status = StatusBadRequest,
                            !.calls = @ + 1]
    /\ UNCHANGED <<clock, doc, tomb, pending, topic, wk, raw, parsed, metrics, collection, idcall, svc>>

\* Lines 89-94: model.ParseEvent failed.
IntakeReject ==
    /\ http.pc = "decoded"
    /\ parsed # NotParsed /\ parsed.kind = "error"
    /\ http' = [http EXCEPT !.pc = "done", !.status = StatusBadRequest]
    /\ UNCHANGED <<clock, doc, tomb, pending, topic, wk, raw, parsed, metrics, collection, idcall, svc>>

\* Lines 96-121: svc.Propagate(ctx, modelEvent) returns any result and
\* error; the outcome is mapped to the response status.
IntakePropagate ==
    /\ http.pc = "decoded"
    /\ parsed # NotParsed /\ parsed.kind = "event"
    /\ \E result \in Results, err \in BOOLEAN :
          http' = [http EXCEPT !.pc = "done", !.calls = @ + 1,
                               !.result = result, !.err = err,
                               !.status = StatusFor(result, err, http.force)]
    /\ UNCHANGED <<clock, doc, tomb, pending, topic, wk, raw, parsed, metrics, collection, idcall, svc>>

NextIntake ==
    \/ IntakeDecode
    \/ ParseStep
    \/ IntakeReject
    \/ IntakePropagate

SpecIntake == InitIntake /\ [][NextIntake]_vars

(***************************************************************************)
(* Tombstone ids.  A tombstone is stored in the _firesync collection under *)
(* an id derived from the deleted document's path.                         *)
(***************************************************************************)

\* Full names of deleted documents, in two projects and two databases; one
\* path contains a second /documents/, and one project and one database are
\* themselves called documents.
TombstonePaths == {<<"x">>, <<"x", "/", "x">>, <<"x", "/", "documents", "/", "x">>}
DeleteNames ==
    {<<"projects", "/", pj, "/", "databases", "/", db, "/", "documents", "/">> \o path :
        pj \in {"p", "q"}, db \in {"d"}, path \in TombstonePaths}
    \cup {<<"projects", "/", "p", "/", "databases", "/", "e", "/", "documents", "/", "x">>,
          <<"projects", "/", "documents", "/", "databases", "/", "d", "/",
            "documents", "/", "x">>,
          <<"projects", "/", "p", "/", "databases", "/", "documents", "/",
            "documents", "/", "x">>}

\* firestore.DocumentRef values of Tombstone.Document: nil, a reference
\* without /documents/, references to deleted documents.
NilRef == [nil |-> TRUE, Path |-> <<>>]
DocumentRef(name) == [nil |-> FALSE, Path |-> name]
InvalidRef == DocumentRef(<<"projects", "/", "p", "/", "databases", "/", "d", "/", "x">>)

\* model.TombstoneID: base64url(sha256(path)).  The digest is a value that
\* is determined by the path and differs for different paths.
TombstoneID(path) == [base64url |-> [sha256 |-> path]]

Panic == [panic |-> TRUE, id |-> <<>>]
Returned(id) == [panic |-> FALSE, id |-> id]

\* (*Tombstone).ID
Tombstone_ID(t) ==
    IF t.Document.nil THEN Panic
    ELSE LET idx == Index(t.Document.Path, documentsInfix, 1)
         IN IF idx = 0 THEN Panic
            ELSE Returned(TombstoneID(
                    SubSeq(t.Document.Path, idx + Len(documentsInfix),
                           Len(t.Document.Path))))

\* (*DocumentName).TombstoneRef: the id under which the tombstone of the
\* named document is stored.
TombstoneRef(name) == TombstoneID(NewDocumentFromPath(name).Path)

InitTombstoneID ==
    /\ clock = 0
    /\ doc = NoDoc
    /\ tomb = NoTomb
    /\ pending = {}
    /\ topic = {}
    /\ wk = [w \in Workers |-> IdleWorker]
    /\ raw = NoRaw
    /\ parsed = NotParsed
    /\ http = NoRequest
    /\ metrics = NoMetrics
    /\ collection = {}
    /\ idcall = NoCall
    /\ svc = NoService

\* A delete event for the named document writes its tombstone, replacing
\* the tombstone document that has the same id.
TombstoneWrite ==
    /\ \E name \in DeleteNames :
          LET id == TombstoneRef(name)
          IN collection' =
                {r \in collection : r.id # id}
                \cup {[id |-> id, Document |-> DocumentRef(name)]}
    /\ UNCHANGED <<clock, doc, tomb, pending, topic, wk, raw, parsed, http,
                   metrics, idcall, svc>>

\* Tombstone.ID() is called on a stored tombstone or on one whose document
\* reference is nil or invalid.
TombstoneIDCall ==
    /\ \E t \in {[Document |-> r.Document] : r \in collection}
                \cup {[Document |-> NilRef], [Document |-> InvalidRef]} :
          idcall' = [kind |-> "call", t |-> t, out |-> Tombstone_ID(t)]
    /\ UNCHANGED <<clock, doc, tomb, pending, topic, wk, raw, parsed, http,
                   metrics, collection, svc>>

NextTombstoneID ==
    \/ TombstoneWrite
    \/ TombstoneIDCall

SpecTombstoneID == InitTombstoneID /\ [][NextTombstoneID]_vars

(***************************************************************************)
(* The propagation event counter.  service.propagator.Propagate as it is   *)
(* in service/propagator.go: it validates the document name, classifies    *)
(* the payload and counts the call under the result it returns.            *)
(***************************************************************************)

\* Calls of Propagate in one run.
MaxCalls == 3

\* service.eventType
eventTypeCreate == "create"
eventTypeUpdate == "update"
eventTypeDelete == "delete"
eventTypeReplicated == "replicated"
eventTypeTombstone == "tombstone"

\* service.documentName{}: what parseDocumentName returns for a bad name.
NoDocumentName == [ProjectID |-> <<>>, DatabaseID |-> <<>>, DocumentPath |-> <<>>]

\* service.parseDocumentName.  The length test of line 214 rejects only
\* names that a later test rejects as well.
parseDocumentName(event) ==
    LET name == IF event.value \/ event.old THEN event.name ELSE <<>>
    IN IF ~HasPrefix(name, projectsPrefix) THEN NoDocumentName
       ELSE LET dbStart == Index(name, databasesInfix, Len(projectsPrefix) + 1)
                projectID == SubSeq(name, Len(projectsPrefix) + 1, dbStart - 1)
            IN IF dbStart = 0 THEN NoDocumentName
               ELSE IF projectID = <<>> \/ \E i \in 1..Len(projectID) : projectID[i] = "/"
                    THEN NoDocumentName
               ELSE LET docStart == Index(name, documentsInfix,
                                          dbStart + Len(databasesInfix))
                        databaseID == SubSeq(name, dbStart + Len(databasesInfix),
                                             docStart - 1)
                        documentPath == SubSeq(name, docStart + Len(documentsInfix),
                                               Len(name))
                    IN IF docStart = 0 THEN NoDocumentName
                       ELSE IF databaseID = <<>>
                               \/ \E i \in 1..Len(databaseID) : databaseID[i] = "/"
                            THEN NoDocumentName
                       ELSE IF documentPath = <<>> THEN NoDocumentName
                       ELSE [ProjectID |-> projectID, DatabaseID |-> databaseID,
                             DocumentPath |-> documentPath]

\* service.newEventType
newEventType(docName, event) ==
    IF ~event.old
    THEN IF ~event.value THEN eventTypeCreate
         ELSE IF HasPrefix(docName.DocumentPath, <<"_firesync", "/">>)
              THEN eventTypeTombstone
         ELSE IF event.firesync THEN eventTypeReplicated
         ELSE eventTypeCreate
    ELSE IF ~event.value THEN eventTypeDelete
    ELSE IF hasAnyFiresyncFields(event.mask.paths) THEN eventTypeReplicated
    ELSE eventTypeUpdate

\* Payloads handed to Propagate.
CounterPayloads ==
    [name : {NamePrefix \o <<"x">>, NamePrefix \o <<"_firesync", "/", "x">>,
             NamePrefix,
             <<"projects", "/", "p", "/", "p", "/", "databases", "/", "d", "/", "documents", "/", "x">>},
     value : BOOLEAN, old : BOOLEAN, firesync : BOOLEAN, ut : {1},
     mask : {NoMask, [present |-> TRUE, paths |-> {<<"x">>}],
             [present |-> TRUE, paths |-> {<<"_firesync", ".", "x">>}]}]

Count(r) == [metrics EXCEPT ![r] = @ + 1]
TotalCount ==
    metrics[PropagationResultSuccess] + metrics[PropagationResultSkipped]
        + metrics[PropagationResultError]

InitCounter ==
    /\ clock = 0
    /\ doc = NoDoc
    /\ tomb = NoTomb
    /\ pending = {}
    /\ topic = {}
    /\ wk = [w \in Workers |-> IdleWorker]
    /\ raw = NoRaw
    /\ parsed = NotParsed
    /\ http = NoRequest
    /\ metrics = NoMetrics
    /\ collection = {}
    /\ idcall = NoCall
    /\ svc = NoService

\* Faulty variant: the invalid-name return does not count the call.
PropagateInvalidUncounted(w) ==
    /\ wk[w].pc = "idle"
    /\ TotalCount < MaxCalls
    /\ \E event \in CounterPayloads :
          LET docName == parseDocumentName(event)
              eventType == newEventType(docName, event)
          IN IF docName = NoDocumentName
             THEN /\ UNCHANGED metrics
                  /\ wk' = Set(w, [IdleWorker EXCEPT
                                    !.pc = "returned",
                                    !.result = PropagationResultError,
                                    !.branch = "invalidName"])
             ELSE IF eventType \in {eventTypeReplicated, eventTypeTombstone}
             THEN /\ metrics' = Count(PropagationResultSkipped)
                  /\ wk' = Set(w, [IdleWorker EXCEPT
                                    !.pc = "returned",
                                    !.result = PropagationResultSkipped,
                                    !.branch = eventType])
             ELSE /\ metrics' = Count(PropagationResultSuccess)
                  /\ wk' = Set(w, [IdleWorker EXCEPT
                                    !.pc = "returned",
                                    !.result = PropagationResultSuccess,
                                    !.branch = eventType])
    /\ UNCHANGED <<clock, doc, tomb, pending, topic, raw, parsed, http,
                   collection, idcall, svc>>

\* propagator.Propagate, lines 85-118.
Propagate(w) ==
    /\ wk[w].pc = "idle"
    /\ TotalCount < MaxCalls
    /\ \E event \in CounterPayloads :
          LET docName == parseDocumentName(event)
              eventType == newEventType(docName, event)
          IN IF docName = NoDocumentName
             THEN /\ metrics' = Count(PropagationResultError)
                  /\ wk' = Set(w, [IdleWorker EXCEPT
                                    !.pc = "returned",
                                    !.result = PropagationResultError,
                                    !.branch = "invalidName"])
             ELSE IF eventType \in {eventTypeReplicated, eventTypeTombstone}
             THEN /\ metrics' = Count(PropagationResultSkipped)
                  /\ wk' = Set(w, [IdleWorker EXCEPT
                                    !.pc = "returned",
                                    !.result = PropagationResultSkipped,
                                    !.branch = eventType])
             ELSE /\ metrics' = Count(PropagationResultSuccess)
                  /\ wk' = Set(w, [IdleWorker EXCEPT
                                    !.pc = "returned",
                                    !.result = PropagationResultSuccess,
                                    !.branch = eventType])
    /\ UNCHANGED <<clock, doc, tomb, pending, topic, raw, parsed, http,
                   collection, idcall, svc>>

\* The worker takes its next request.
NextRequest(w) ==
    /\ wk[w].pc = "returned"
    /\ wk' = Set(w, IdleWorker)
    /\ UNCHANGED <<clock, doc, tomb, pending, topic, raw, parsed, http,
                   metrics, collection, idcall, svc>>

NextCounter ==
    \/ \E w \in Workers : Propagate(w)
    \/ \E w \in Workers : NextRequest(w)

SpecCounter == InitCounter /\ [][NextCounter]_vars

(***************************************************************************)
(* Service lifecycle: newService registers a shutdown function for every   *)
(* resource it creates, Start registers the HTTP server's, Stop runs the   *)
(* registered functions.  cmd/service runs Start in a goroutine of its own *)
(* and calls Stop from the main goroutine once a termination signal        *)
(* arrives; nothing orders Start's append to shutdownFuncs before Stop's   *)
(* read of it.  The slice is its length len and its backing array arr;    *)
(* the append stores the new length and then the element, and a reader    *)
(* between the two stores finds the new length and an empty slot.  reg is *)
(* the history of the appends begun so far.                               *)
(***************************************************************************)
tpShutdown == "tp.Shutdown"
pubsubClose == "pubsubClient.Close"
firestoreClose == "firestoreClient.Close"
srvShutdown == "srv.Shutdown"

\* s.shutdownFuncs = append(s.shutdownFuncs, fn), by the goroutine that alone
\* uses the service.
Registered(s, fn) ==
    [s EXCEPT !.len = @ + 1, !.arr[s.len + 1] = fn, !.reg = Append(@, fn)]

\* The deferred function of newService: an error return runs Stop first.
Failing(s, cause) == [s EXCEPT !.main = "deferred", !.cause = cause]

ServiceStep(s) ==
    /\ svc' = s
    /\ UNCHANGED <<clock, doc, tomb, pending, topic, wk, raw, parsed, http, metrics,
                   collection, idcall>>

\* newService: envconfig.Process
LoadConfig ==
    /\ svc.main = "config"
    /\ \E ok \in BOOLEAN :
          ServiceStep(IF ok THEN [svc EXCEPT !.main = "otel"]
                      ELSE Failing(svc, <<"envconfig.Process">>))

\* newService: setupOpenTelemetry; its failure is logged, not returned.
setupOpenTelemetry ==
    /\ svc.main = "otel"
    /\ \E ok \in BOOLEAN :
          ServiceStep(IF ok
                      THEN [Registered(svc, tpShutdown) EXCEPT
                                !.main = "pubsub", !.hasOtel = TRUE]
                      ELSE [svc EXCEPT !.main = "pubsub"])

\* newService: pubsub.NewClientWithConfig
NewPubSubClient ==
    /\ svc.main = "pubsub"
    /\ \E ok \in BOOLEAN :
          ServiceStep(IF ok
                      THEN [Registered(svc, pubsubClose) EXCEPT !.main = "firestore"]
                      ELSE Failing(svc, <<"pubsub.NewClientWithConfig">>))

\* newService: firestore.NewClientWithDatabase, then the router and the
\* server, which cannot fail; New returns the service.
NewFirestoreClient ==
    /\ svc.main = "firestore"
    /\ \E ok \in BOOLEAN :
          ServiceStep(IF ok
                      THEN [Registered(svc, firestoreClose) EXCEPT !.main = "built"]
                      ELSE Failing(svc, <<"firestore.NewClientWithDatabase">>))

\* newService returns the error joined with what Stop returned.
NewReturnError ==
    /\ svc.main = "deferred" /\ svc.stop.pc = "done"
    /\ ServiceStep([svc EXCEPT !.main = "failed",
                               !.err = Join(svc.cause, svc.stop.ret)])

\* main: go func() { errCh <- svc.Start(ctx) }()
MainSpawnStart ==
    /\ svc.main = "built"
    /\ ServiceStep([svc EXCEPT !.main = "serving", !.start = "spawned"])

\* Start's append, first store: the length (the backing array has room for
\* the element, or a grown copy has been installed).
StartStoreLen ==
    /\ svc.start = "spawned"
    /\ ServiceStep([svc EXCEPT !.start = "lenStored", !.len = @ + 1,
                               !.reg = Append(@, srvShutdown)])

\* Start's append, second store: the element; then ListenAndServe.
StartStoreElem ==
    /\ svc.start = "lenStored"
    /\ ServiceStep([svc EXCEPT !.start = "listening", !.arr[svc.len] = srvShutdown])

\* ListenAndServe returns an error other than ErrServerClosed.
ListenFail ==
    /\ svc.start = "listening"
    /\ srvShutdown \notin {svc.stop.ran[k] : k \in 1..Len(svc.stop.ran)}
    /\ ServiceStep([svc EXCEPT !.start = "failed"])

\* ListenAndServe returns ErrServerClosed after srv.Shutdown; Start returns nil.
ListenClosed ==
    /\ svc.start = "listening"
    /\ srvShutdown \in {svc.stop.ran[k] : k \in 1..Len(svc.stop.ran)}
    /\ ServiceStep([svc EXCEPT !.start = "closed"])

\* main: case err := <-errCh with a non-nil error; main returns it.
MainStartFailed ==
    /\ svc.main = "serving" /\ svc.start = "failed"
    /\ ServiceStep([svc EXCEPT !.main = "exited"])

\* main: case <-sig.Done(); main goes on to call Stop.
MainSignal ==
    /\ svc.main = "serving"
    /\ ServiceStep([svc EXCEPT !.main = "signalled"])

\* service.Stop: slices.Backward(s.shutdownFuncs) reads the slice once.
StopBegin ==
    /\ svc.main \in {"deferred", "signalled"} /\ svc.stop.pc = "idle"
    /\ ServiceStep([svc EXCEPT !.stop.pc = "loop", !.stop.i = svc.len,
                               !.stop.entry = svc.reg])

\* service.Stop: one iteration.  The element is read when it is visited; a
\* call of a nil function panics.
StopCall ==
    /\ svc.stop.pc = "loop" /\ svc.stop.i >= 1
    /\ LET fn == svc.arr[svc.stop.i] IN
       IF fn = "nil"
       THEN ServiceStep([svc EXCEPT !.stop.pc = "panic", !.main = "crashed"])
       ELSE \E ok \in BOOLEAN :
               ServiceStep([svc EXCEPT
                   !.stop.i = @ - 1,
                   !.stop.ran = Append(@, fn),
                   !.stop.ret = IF ok THEN @ ELSE Join(@, <<fn>>)])

\* service.Stop: return retErr
StopReturn ==
    /\ svc.stop.pc = "loop" /\ svc.stop.i = 0
    /\ ServiceStep([svc EXCEPT !.stop.pc = "done"])

\* main: Stop returned; main returns its error.
MainStopped ==
    /\ svc.main = "signalled" /\ svc.stop.pc = "done"
    /\ ServiceStep([svc EXCEPT !.main = "exited", !.err = svc.stop.ret])

NextStop ==
    \/ LoadConfig
    \/ setupOpenTelemetry
    \/ NewPubSubClient
    \/ NewFirestoreClient
    \/ NewReturnError
    \/ MainSpawnStart
    \/ StartStoreLen
    \/ StartStoreElem
    \/ ListenFail
    \/ ListenClosed
    \/ MainStartFailed
    \/ MainSignal
    \/ StopBegin
    \/ StopCall
    \/ StopReturn
    \/ MainStopped

SpecStop == Init /\ [][NextStop]_vars

(***************************************************************************)
(* Properties.                                                             *)
(***************************************************************************)

\* Worker w's transaction closure runs to its end in this step.
TxStep(w) == wk[w].pc = "tx" /\ wk'[w].pc # "tx" /\ wk'[w].branch # "txError"

StoreUnchanged == doc' = doc /\ tomb' = tomb /\ clock' = clock

\* C1: a call of Propagate on a Replicated or Tombstone event returns Skipped
\* (no error) in the step that starts it, in any state of the store, and
\* that step writes nothing to the datastore and publishes nothing.
C1_SkipTypesDoNoIO ==
    [][\A w \in Workers :
          (wk[w].pc = "idle" /\ wk'[w] # wk[w]
              /\ wk'[w].ev.type \in {EventTypeReplicated, EventTypeTombstone})
          => /\ wk'[w].pc = "idle"
             /\ wk'[w].result = PropagationResultSkipped
             /\ wk'[w].writes = 0 /\ wk'[w].pubs = 0
             /\ StoreUnchanged
             /\ topic' = topic]_vars

\* A Tombstone event was skipped while the store holds a document and a
\* tombstone, and a Replicated event was skipped too.
C1_Witness ==
    /\ doc.exists /\ tomb.exists
    /\ wk["w1"].branch = "skipType" /\ wk["w1"].ev.type = EventTypeTombstone
    /\ wk["w1"].result = PropagationResultSkipped
    /\ wk["w2"].branch = "skipType" /\ wk["w2"].ev.type = EventTypeReplicated
    /\ wk["w2"].result = PropagationResultSkipped

CommitBranches == {"stamped", "tombstoneCreated", "tombstoneUpdated"}

\* C2: a call that has returned Success processed a Created, Updated or
\* Deleted event, its transaction committed a write, and the wire message of
\* its event was published once by it and is on the topic.
C2_SuccessMeansCommittedAndPublished ==
    \A w \in Workers :
        wk[w].result = PropagationResultSuccess
        => /\ wk[w].ev.type \in Propagated
           /\ wk[w].branch \in CommitBranches
           /\ wk[w].writes >= 1
           /\ wk[w].publish
           /\ wk[w].pubs = 1
           /\ Message(wk[w].ev) \in topic

\* Some call returned Success for each propagated event type.
C2_Witness ==
    /\ wk["w1"].result = PropagationResultSuccess
    /\ wk["w1"].ev.type = EventTypeDeleted
    /\ wk["w2"].result = PropagationResultSuccess
    /\ wk["w2"].ev.type = EventTypeCreated

AllIdle == \A w \in Workers : wk[w].pc = "idle"

Stamped == doc.exists /\ doc.meta # 0

C7_StaleEventSkipped ==
    [][\A w \in Workers :
          (TxStep(w) /\ Stamped /\ wk[w].ev.t < doc.meta)
          => /\ StoreUnchanged
             /\ topic' = topic
             /\ wk'[w].pc = "idle"
             /\ wk'[w].result = PropagationResultSkipped
             /\ wk'[w].pubs = 0]_vars

\* A stale Created, Updated and Deleted event have each been skipped against
\* a newer stamped document.
C7_Witness ==
    /\ Stamped
    /\ \E w \in Workers :
        /\ wk[w].pc = "idle" /\ wk[w].result = PropagationResultSkipped
        /\ wk[w].ev.type = EventTypeUpdated /\ wk[w].ev.t < doc.meta
        /\ wk[w].branch = "precondition"
    /\ \E w \in Workers :
        /\ wk[w].pc = "idle" /\ wk[w].result = PropagationResultSkipped
        /\ wk[w].ev.type = EventTypeDeleted /\ wk[w].ev.t < doc.meta
        /\ wk[w].branch = "newerDocument"

\* The LastUpdateTime precondition the sub-protocol of event e attaches to
\* its first mutation does not hold in the current store.
FirstPreconditionFails(e) ==
    IF e.type \in {EventTypeCreated, EventTypeUpdated}
    THEN ~(doc.exists /\ doc.ut = e.t)
    ELSE \/ /\ doc.exists
            /\ ~(ObservedTimestamp(doc, e) > e.t)
            /\ doc.ut # ObservedTimestamp(doc, e)
         \/ /\ ~doc.exists
            /\ tomb.exists /\ ~(tomb.ts > e.t) /\ tomb.ut # e.t

\* The tombstone update of a Deleted event fails its precondition after the
\* document delete of the same transaction passed.
SecondPreconditionFails(e) ==
    /\ e.type = EventTypeDeleted
    /\ doc.exists /\ ~(ObservedTimestamp(doc, e) > e.t)
    /\ doc.ut = ObservedTimestamp(doc, e)
    /\ tomb.exists /\ ~(tomb.ts > e.t) /\ tomb.ut # e.t

\* C8: when an Update or Delete of the transaction fails its LastUpdateTime
\* precondition, the call returns Skipped (never Error), publishes nothing,
\* and the failed mutation is not applied.
C8_PreconditionFailureIsSkipped ==
    [][\A w \in Workers :
          (TxStep(w) /\ (FirstPreconditionFails(wk[w].ev)
                           \/ SecondPreconditionFails(wk[w].ev)))
          => /\ wk'[w].pc = "idle"
             /\ wk'[w].result = PropagationResultSkipped
             /\ wk'[w].pubs = 0
             /\ topic' = topic
             /\ tomb' = tomb
             /\ FirstPreconditionFails(wk[w].ev) => doc' = doc]_vars

\* A call was skipped on a failed precondition of an Update (stamp) and
\* another on a failed precondition of a tombstone update.
C8_Witness ==
    /\ wk["w1"].branch = "precondition"
    /\ wk["w1"].ev.type = EventTypeUpdated
    /\ wk["w1"].result = PropagationResultSkipped
    /\ wk["w2"].branch = "precondition"
    /\ wk["w2"].ev.type = EventTypeDeleted
    /\ wk["w2"].result = PropagationResultSkipped
    /\ tomb.exists /\ tomb.ts <= wk["w2"].ev.t

\* C9: the transaction of a Created event with timestamp t, run while a
\* tombstone with timestamp > t exists, deletes the document created at t,
\* leaves the tombstone unchanged, publishes nothing and the call returns
\* Skipped; a document changed since t fails the delete precondition and is
\* left as it is.
C9_StaleCreateDeleted ==
    [][\A w \in Workers :
          (TxStep(w) /\ wk[w].ev.type = EventTypeCreated
              /\ tomb.exists /\ tomb.ts > wk[w].ev.t)
          => /\ tomb' = tomb
             /\ topic' = topic
             /\ wk'[w].pc = "idle"
             /\ wk'[w].result = PropagationResultSkipped
             /\ wk'[w].pubs = 0
             /\ (doc.exists /\ doc.ut = wk[w].ev.t) => ~doc'.exists
             /\ ~(doc.exists /\ doc.ut = wk[w].ev.t) => doc' = doc]_vars

\* A Created event lost to a newer tombstone: its document was deleted.
C9_Witness ==
    \E w \in Workers :
        /\ wk[w].pc = "idle"
        /\ wk[w].ev.type = EventTypeCreated
        /\ wk[w].branch = "staleDeleted"
        /\ wk[w].writes = 1
        /\ wk[w].result = PropagationResultSkipped
        /\ tomb.exists /\ tomb.ts > wk[w].ev.t
        /\ ~doc.exists

\* The document version a Created event with timestamp t announces is live
\* after the step: still at update time t, or stamped with t.
CreatedVersionLive(t) == doc'.exists /\ (doc'.ut = t \/ doc'.meta = t)

\* The outcome "resurrection rejected" of a Created event of worker w.
Rejected(w) ==
    /\ tomb' = tomb
    /\ topic' = topic
    /\ wk'[w].pubs = 0
    /\ wk'[w].result = PropagationResultSkipped
    /\ ~CreatedVersionLive(wk[w].ev.t)

PropagatedEvents == {e \in pending : e.type \in Propagated}

\* Delivering event e once more would change nothing and publish nothing.
Settled(e) ==
    LET r == process(doc, tomb, clock + 1, e)
    IN r.doc = doc /\ r.tomb = tomb /\ ~r.publish

\* Every emitted event has been delivered often enough: no call is running
\* and no further delivery has any effect.
Terminal == AllIdle /\ \A e \in PropagatedEvents : Settled(e)

\* The state machine applied to the single event e.
StateAfterOnly(e) ==
    IF e.type = EventTypeDeleted
    THEN ~doc.exists /\ tomb.exists /\ tomb.ts = e.t
    ELSE doc.exists /\ doc.meta = e.t

\* C4: in a terminal state the path is in the state of the event with the
\* maximum timestamp among the events delivered: Tombstoned(t) for a Deleted
\* event, Live(t) for a Created or Updated event.
C4_Convergence ==
    Terminal =>
        \A e \in PropagatedEvents :
            (\A f \in PropagatedEvents : f # e => f.t < e.t) => StateAfterOnly(e)

\* The store and publish decision after delivering e twice in a row.
Twice(e) ==
    LET r1 == process(doc, tomb, clock + 1, e)
        now2 == IF r1.doc # doc \/ r1.tomb # tomb THEN clock + 2 ELSE clock + 1
    IN [first |-> r1, second |-> process(r1.doc, r1.tomb, now2, e)]

\* C5: from every reachable store and for every emitted Created, Updated or
\* Deleted event, a second delivery right after the first leaves the store
\* of the first delivery and decides not to publish (Skipped).
C5_Idempotence ==
    \A e \in PropagatedEvents :
        /\ Twice(e).second.doc = Twice(e).first.doc
        /\ Twice(e).second.tomb = Twice(e).first.tomb
        /\ ~Twice(e).second.publish

\* Worker w holds an Updated event that another worker v has stamped.
LostRace(w, v) ==
    /\ v # w
    /\ wk[w].ev.type = EventTypeUpdated
    /\ wk[v].ev = wk[w].ev
    /\ wk[v].branch = "stamped"

\* C6: of two workers processing the same Updated event with timestamp t,
\* the first transaction to run against the document last updated at t (no
\* newer tombstone) stamps it with t and decides to publish; the transaction
\* of the other then fails the precondition, changes nothing, publishes
\* nothing and returns Skipped, so the stamp t stays; both never succeed.
C6_UpdateRace ==
    [][\A w \in Workers :
          (TxStep(w) /\ wk[w].ev.type = EventTypeUpdated)
          => /\ (doc.exists /\ doc.ut = wk[w].ev.t
                    /\ ~(tomb.exists /\ tomb.ts > wk[w].ev.t))
                 => /\ doc'.exists /\ doc'.meta = wk[w].ev.t
                    /\ wk'[w].publish /\ wk'[w].pc = "publish"
                    /\ \A v \in Workers : ~LostRace(w, v)
             /\ \A v \in Workers :
                    LostRace(w, v)
                    => /\ wk'[w].branch = "precondition"
                       /\ wk'[w].result = PropagationResultSkipped
                       /\ wk'[w].pc = "idle"
                       /\ StoreUnchanged
                       /\ topic' = topic]_vars

\* Two workers raced on one Updated event: one returned Success, the other
\* Skipped on the precondition, and the document carries the event's stamp.
C6_Witness ==
    /\ wk["w1"].ev = wk["w2"].ev
    /\ wk["w1"].ev.type = EventTypeUpdated
    /\ wk["w1"].result = PropagationResultSuccess
    /\ wk["w2"].result = PropagationResultSkipped
    /\ wk["w2"].branch = "precondition"
    /\ doc.exists /\ doc.meta = wk["w1"].ev.t
(***************************************************************************)
(* The sub-protocols case by case.                                         *)
(***************************************************************************)

\* The tombstone is strictly newer than the event of worker w.
NewerTombstone(w) == tomb.exists /\ tomb.ts > wk[w].ev.t

\* The document is the version the event of worker w announces.
AtEventTime(w) == doc.exists /\ doc.ut = wk[w].ev.t

\* C11: the transaction of a Created event with timestamp t, run with no
\* strictly newer tombstone against the document last updated at t, writes
\* _firesync with timestamp t and the database's source, leaves the
\* tombstone alone and decides to publish; a call that returns Success for
\* a Created event has published exactly one message, which is on the topic.
C11_CreateStamped ==
    [][\A w \in Workers :
          /\ (TxStep(w) /\ wk[w].ev.type = EventTypeCreated
                 /\ ~NewerTombstone(w) /\ AtEventTime(w))
             => /\ doc'.exists
                /\ doc'.meta = wk[w].ev.t
                /\ doc'.src = Source
                /\ tomb' = tomb
                /\ wk'[w].publish /\ wk'[w].pc = "publish"
          /\ (wk[w].ev.type = EventTypeCreated /\ wk[w].pc = "ack"
                 /\ wk'[w].result = PropagationResultSuccess)
             => /\ wk'[w].pubs = 1
                /\ Message(wk[w].ev) \in topic']_vars

\* A Created event was stamped next to an older tombstone and its call
\* returned Success.
C11_Witness ==
    \E w \in Workers :
        /\ wk[w].ev.type = EventTypeCreated
        /\ wk[w].result = PropagationResultSuccess
        /\ wk[w].branch = "stamped"
        /\ doc.exists /\ doc.meta = wk[w].ev.t /\ doc.src = Source
        /\ tomb.exists /\ tomb.ts < wk[w].ev.t
        /\ Message(wk[w].ev) \in topic

\* C12 as stated: the transaction of an Updated event with timestamp t, run
\* while a tombstone with timestamp > t exists, deletes the document and
\* decides not to publish.
C12_Original ==
    [][\A w \in Workers :
          (TxStep(w) /\ wk[w].ev.type = EventTypeUpdated
              /\ NewerTombstone(w) /\ doc.exists)
          => (~doc'.exists /\ ~wk'[w].publish)]_vars

\* C12 amended: that transaction deletes the document if the document is
\* still at update time t; a document changed since t fails the delete's
\* precondition and is left as it is.  Either way the tombstone is not
\* touched, nothing is published and the call returns Skipped.
C12_StaleUpdateDeleted ==
    [][\A w \in Workers :
          (TxStep(w) /\ wk[w].ev.type = EventTypeUpdated /\ NewerTombstone(w))
          => /\ tomb' = tomb
             /\ topic' = topic
             /\ ~wk'[w].publish
             /\ wk'[w].pc = "idle"
             /\ wk'[w].result = PropagationResultSkipped
             /\ wk'[w].pubs = 0
             /\ AtEventTime(w) => ~doc'.exists
             /\ ~AtEventTime(w) => doc' = doc]_vars

\* An Updated event lost to a newer tombstone: its document was deleted.
C12_Witness ==
    \E w \in Workers :
        /\ wk[w].pc = "idle"
        /\ wk[w].ev.type = EventTypeUpdated
        /\ wk[w].branch = "staleDeleted"
        /\ wk[w].writes = 1
        /\ wk[w].result = PropagationResultSkipped
        /\ tomb.exists /\ tomb.ts > wk[w].ev.t
        /\ ~doc.exists

\* C13: the transaction of an Updated event with timestamp t, run against a
\* stamped document Live(ts') with t >= ts' and no strictly newer tombstone,
\* stamps the document Live(t) and decides to publish when the document is
\* still at update time t, and otherwise (failed precondition) changes
\* nothing and publishes nothing; a call that returns Success for an Updated
\* event has its message on the topic.
C13_UpdateStamped ==
    [][\A w \in Workers :
          /\ (TxStep(w) /\ wk[w].ev.type = EventTypeUpdated
                 /\ Stamped /\ wk[w].ev.t >= doc.meta /\ ~NewerTombstone(w))
             => /\ AtEventTime(w)
                     => /\ doc'.exists /\ doc'.meta = wk[w].ev.t
                        /\ doc'.src = Source
                        /\ tomb' = tomb
                        /\ wk'[w].publish /\ wk'[w].pc = "publish"
                /\ ~AtEventTime(w)
                     => /\ StoreUnchanged
                        /\ topic' = topic
                        /\ ~wk'[w].publish
                        /\ wk'[w].result = PropagationResultSkipped
          /\ (wk[w].ev.type = EventTypeUpdated /\ wk[w].pc = "ack"
                 /\ wk'[w].result = PropagationResultSuccess)
             => Message(wk[w].ev) \in topic']_vars

\* A document stamped by an earlier event was stamped again by a later
\* Updated event, which was published.
C13_Witness ==
    \E w, v \in Workers :
        /\ wk[v].branch = "stamped" /\ wk[v].result = PropagationResultSuccess
        /\ wk[w].ev.type = EventTypeUpdated
        /\ wk[w].branch = "stamped" /\ wk[w].result = PropagationResultSuccess
        /\ wk[v].ev.t < wk[w].ev.t
        /\ doc.exists /\ doc.meta = wk[w].ev.t
        /\ Message(wk[w].ev) \in topic

\* C14: the transaction of a Deleted event with timestamp t, run while the
\* document exists with a _firesync timestamp strictly greater than t,
\* keeps the document, neither creates nor updates a tombstone, publishes
\* nothing, and the call returns Skipped.
C14_NewerDocumentWins ==
    [][\A w \in Workers :
          (TxStep(w) /\ wk[w].ev.type = EventTypeDeleted
              /\ Stamped /\ doc.meta > wk[w].ev.t)
          => /\ doc' = doc
             /\ tomb' = tomb
             /\ topic' = topic
             /\ ~wk'[w].publish
             /\ wk'[w].pc = "idle"
             /\ wk'[w].result = PropagationResultSkipped
             /\ wk'[w].writes = 0 /\ wk'[w].pubs = 0]_vars

\* A Deleted event lost to a re-created, newer stamped document while no
\* tombstone exists.
C14_Witness ==
    \E w \in Workers :
        /\ wk[w].pc = "idle"
        /\ wk[w].ev.type = EventTypeDeleted
        /\ wk[w].branch = "newerDocument"
        /\ wk[w].result = PropagationResultSkipped
        /\ Stamped /\ doc.meta > wk[w].ev.t
        /\ ~tomb.exists
        /\ Message(wk[w].ev) \notin topic

\* The live document is newer than the event of worker w, by its _firesync
\* timestamp or by its update time.
NewerDocument(w) ==
    doc.exists /\ (doc.meta > wk[w].ev.t \/ doc.ut > wk[w].ev.t)

\* C15: the transaction of a Deleted event with timestamp t, run while no
\* tombstone exists and no newer live document, creates the tombstone with
\* timestamp t and expiration t + tombstoneTTL, leaves the path without a
\* live document and decides to publish.
C15_DeleteCreatesTombstone ==
    [][\A w \in Workers :
          (TxStep(w) /\ wk[w].ev.type = EventTypeDeleted
              /\ ~tomb.exists /\ ~NewerDocument(w))
          => /\ tomb'.exists
             /\ tomb'.ts = wk[w].ev.t
             /\ tomb'.exp = wk[w].ev.t + TombstoneTTL
             /\ ~doc'.exists
             /\ wk'[w].publish /\ wk'[w].pc = "publish"]_vars

\* C16: the transaction of a Deleted event with timestamp t, run while a
\* tombstone with timestamp > t exists, leaves the tombstone as it is,
\* decides not to publish, and the call returns Skipped without a publish.
C16_NewerTombstoneWins ==
    [][\A w \in Workers :
          (TxStep(w) /\ wk[w].ev.type = EventTypeDeleted /\ NewerTombstone(w))
          => /\ tomb' = tomb
             /\ topic' = topic
             /\ ~wk'[w].publish
             /\ wk'[w].pc = "idle"
             /\ wk'[w].result = PropagationResultSkipped
             /\ wk'[w].pubs = 0]_vars

\* A Deleted event lost to a newer tombstone.
C16_Witness ==
    \E w \in Workers :
        /\ wk[w].pc = "idle"
        /\ wk[w].ev.type = EventTypeDeleted
        /\ wk[w].branch = "newerTombstone"
        /\ wk[w].result = PropagationResultSkipped
        /\ tomb.exists /\ tomb.ts > wk[w].ev.t
        /\ Message(wk[w].ev) \notin topic

(***************************************************************************)
(* Failures.                                                               *)
(***************************************************************************)

\* C17: a transaction that fails for another reason than a precondition
\* (failed read, failed decode, abort) ends the call with the Error result;
\* the store and the topic are as before and the call has written and
\* published nothing.
C17_TransactionFailureIsError ==
    [][\A w \in Workers :
          (wk[w].pc = "tx" /\ wk'[w].branch = "txError")
          => /\ wk'[w].pc = "idle"
             /\ wk'[w].result = PropagationResultError
             /\ wk'[w].writes = 0 /\ wk'[w].pubs = 0
             /\ ~wk'[w].publish
             /\ StoreUnchanged
             /\ topic' = topic]_vars

\* A call on a Created event whose document awaited its stamp ended in
\* Error on a failed transaction: no stamp, no message.
C17_Witness ==
    \E w \in Workers :
        /\ wk[w].pc = "idle"
        /\ wk[w].branch = "txError"
        /\ wk[w].result = PropagationResultError
        /\ wk[w].ev.type = EventTypeCreated
        /\ doc.exists /\ doc.ut = wk[w].ev.t /\ doc.meta = 0
        /\ Message(wk[w].ev) \notin topic

\* C18: a call whose transaction committed and whose publish fails, or is
\* cancelled before the acknowledgement, returns Error, and the step leaves
\* the committed document and tombstone in place.
C18_PublishFailureKeepsCommit ==
    [][\A w \in Workers :
          (wk[w].pc \in {"publish", "ack"}
              /\ wk'[w].pc = "idle"
              /\ wk'[w].result # PropagationResultSuccess)
          => /\ wk'[w].result = PropagationResultError
             /\ wk[w].branch \in CommitBranches /\ wk[w].writes >= 1
             /\ doc' = doc
             /\ tomb' = tomb]_vars

\* A Deleted event's tombstone is in the store although its call returned
\* Error before any message was sent; another call's stamp survived a
\* failed acknowledgement.
C18_Witness ==
    /\ wk["w1"].result = PropagationResultError
    /\ wk["w1"].branch = "tombstoneCreated"
    /\ wk["w1"].pubs = 0
    /\ tomb.exists /\ tomb.ts = wk["w1"].ev.t
    /\ wk["w2"].result = PropagationResultError
    /\ wk["w2"].branch = "stamped"
    /\ wk["w2"].pubs = 1
    /\ doc.exists /\ doc.meta = wk["w2"].ev.t

(***************************************************************************)
(* The classifier.                                                         *)
(***************************************************************************)

\* The parsed payload names a document under the _firesync/ collection of
\* some database.
UnderTombstoneCollection ==
    LET name == raw.event.name
    IN /\ Len(name) >= 12
       /\ SubSeq(name, 1, 10) = NamePrefix
       /\ name[11] = "_firesync" /\ name[12] = "/"

\* The parsed payload names a document outside the _firesync/ collection.
OutsideTombstoneCollection ==
    LET name == raw.event.name
    IN /\ Len(name) > 10
       /\ SubSeq(name, 1, 10) = NamePrefix
       /\ SubSeq(name, 11, Len(name)) \in DocumentPaths
       /\ ~(Len(name) >= 12 /\ name[11] = "_firesync" /\ name[12] = "/")

Classified == parsed # NotParsed

\* C19: every payload with at least one image whose document lies under
\* _firesync/ is classified Tombstone, with only a new image, only an old
\* image or both.
C19_TombstonePathIsTombstone ==
    (Classified /\ UnderTombstoneCollection
        /\ (raw.event.value \/ raw.event.old))
    => (parsed.kind = "event" /\ parsed.type = EventTypeTombstone)

\* The deletion of a tombstone document (old image only) was classified
\* Tombstone.
C19_Witness ==
    /\ Classified /\ UnderTombstoneCollection
    /\ ~raw.event.value /\ raw.event.old
    /\ parsed.kind = "event" /\ parsed.type = EventTypeTombstone

\* The payload's update mask names _firesync or a path below it.
MaskNamesFiresync ==
    \E f \in raw.event.mask.paths :
        f[1] = "_firesync" /\ (Len(f) = 1 \/ f[2] = ".")

\* C20: for a document outside _firesync/, a create (new image only) is
\* Replicated if the image has the field _firesync and Created otherwise; an
\* update (both images, with an update mask) is Replicated if the mask names
\* _firesync or a _firesync.* path and Updated otherwise.
C20_ReplicatedOrUserWrite ==
    (Classified /\ OutsideTombstoneCollection /\ raw.event.value)
    => /\ ~raw.event.old
          => /\ parsed.kind = "event"
             /\ parsed.type = IF raw.event.firesync THEN EventTypeReplicated
                                                    ELSE EventTypeCreated
       /\ (raw.event.old /\ raw.event.mask.present)
          => /\ parsed.kind = "event"
             /\ parsed.type = IF MaskNamesFiresync THEN EventTypeReplicated
                                                   ELSE EventTypeUpdated

\* An update whose mask holds a user field and a _firesync.* path was
\* classified Replicated.
C20_Witness ==
    /\ Classified /\ OutsideTombstoneCollection
    /\ raw.event.value /\ raw.event.old
    /\ raw.event.mask.paths = {<<"_firesync", ".", "x">>, <<"x">>}
    /\ parsed.kind = "event" /\ parsed.type = EventTypeReplicated

\* C21: a classified event with a new image carries that image's updateTime,
\* whatever event time was supplied; a classified event with only an old
\* image carries the supplied event time.
C21_TimestampSource ==
    (Classified /\ parsed.kind = "event")
    => IF raw.event.value
       THEN /\ parsed.t = raw.event.ut
            /\ \A t \in IntakeTimes : ParseEvent(raw.event, t) = parsed
       ELSE parsed.t = raw.eventTime

\* A user create whose image was updated at 1 was received with event time 2
\* and is stamped 1.
C21_Witness ==
    /\ Classified /\ parsed.kind = "event"
    /\ parsed.type = EventTypeCreated
    /\ raw.event.ut = 1 /\ raw.eventTime = 2
    /\ parsed.t = 1

\* The payload's document name lacks the projects/ prefix, the /databases/
\* or the /documents/ infix, or has an empty part.
NameUnparseable == raw.event.name \in MalformedNames

\* C22 as stated: no image, an unparseable name, or both images without an
\* update mask always give an error.
C22_Original ==
    (Classified
        /\ \/ ~raw.event.value /\ ~raw.event.old
           \/ NameUnparseable
           \/ raw.event.value /\ raw.event.old /\ ~raw.event.mask.present)
    => parsed.kind = "error"

\* C22: ParseEvent returns an error, and no event, when the payload has no
\* image, when the document name cannot be parsed, and when both images are
\* present for a document outside _firesync/ but the update mask is absent.
C22_MalformedIsError ==
    (Classified
        /\ \/ ~raw.event.value /\ ~raw.event.old
           \/ NameUnparseable
           \/ /\ raw.event.value /\ raw.event.old /\ ~raw.event.mask.present
              /\ OutsideTombstoneCollection)
    => parsed.kind = "error"

\* An update of a document outside _firesync/ without an update mask was
\* rejected.
C22_Witness ==
    /\ Classified /\ OutsideTombstoneCollection
    /\ raw.event.value /\ raw.event.old /\ ~raw.event.mask.present
    /\ parsed.kind = "error"

\* The field path is the reserved field itself or a path below it.
FiresyncSegment(f) == f = <<"_firesync">> \/ (Len(f) >= 2 /\ f[1] = "_firesync" /\ f[2] = ".")

\* The field path starts with or contains the reserved name without being
\* the reserved field or a path below it (_firesynced, prefix_firesync).
LooksLikeFiresync(f) ==
    /\ \E i \in 1..Len(f) : f[i] = "_firesync"
    /\ ~FiresyncSegment(f)

\* C23: the update-mask check counts a field path only if it is exactly
\* _firesync or starts with "_firesync."; an update of a document outside
\* _firesync/ whose mask holds no such path is classified Updated, also when
\* its paths share the prefix or contain the reserved name elsewhere.
C23_ExactSegmentMatch ==
    /\ Classified
       => \A f \in raw.event.mask.paths :
            hasAnyFiresyncFields({f}) <=> FiresyncSegment(f)
    /\ (Classified /\ OutsideTombstoneCollection
            /\ raw.event.value /\ raw.event.old /\ raw.event.mask.present
            /\ \A f \in raw.event.mask.paths : ~FiresyncSegment(f))
       => (parsed.kind = "event" /\ parsed.type = EventTypeUpdated)

\* An update whose mask names a field that merely starts with the reserved
\* name was classified Updated.
C23_Witness ==
    /\ Classified /\ OutsideTombstoneCollection
    /\ raw.event.value /\ raw.event.old /\ raw.event.mask.present
    /\ raw.event.mask.paths = {<<"_firesync", "x">>, <<"x">>}
    /\ \E f \in raw.event.mask.paths : LooksLikeFiresync(f)
    /\ parsed.kind = "event" /\ parsed.type = EventTypeUpdated

(***************************************************************************)
(* The document name parser.                                               *)
(***************************************************************************)

\* C24: a name is accepted only if it has the form
\* projects/{project}/databases/{database}/documents/{path} with non-empty
\* parts and no slash inside the project id or the database id.
C24_OnlyWellFormedAccepted ==
    (Classified /\ parsed.kind = "event")
    => raw.event.name \in WellFormedNames

(***************************************************************************)
(* The HTTP intake.                                                        *)
(***************************************************************************)

Responded == http.pc = "done"

\* C25: the response status is 202 for Success and 204 for Skipped (200 for
\* both in forced-200 mode) and 500 for an Error result, for an unknown
\* result and for any non-nil error whatever the result; forced-200 mode
\* never turns an error response into 200.
C25_StatusMapping ==
    (Responded /\ http.calls = 1)
    => /\ (http.err \/ http.result \in {PropagationResultError,
                                        PropagationResultUnknown})
          => http.status = 500
       /\ (~http.err /\ http.result = PropagationResultSuccess)
          => http.status = IF http.force THEN 200 ELSE 202
       /\ (~http.err /\ http.result = PropagationResultSkipped)
          => http.status = IF http.force THEN 200 ELSE 204
       /\ http.status = 200
          => /\ http.force /\ ~http.err
             /\ http.result \in {PropagationResultSuccess,
                                  PropagationResultSkipped}

\* In forced-200 mode the propagator returned Success together with an
\* error and the response is 500.
C25_Witness ==
    /\ Responded /\ http.calls = 1
    /\ http.force /\ http.err /\ http.result = PropagationResultSuccess
    /\ http.status = 500

\* The content type the body is decoded with: the content-type header, or
\* ce-datacontenttype when that header is empty.
EffectiveContentType ==
    IF http.contentType # "" THEN http.contentType ELSE http.ceDataContentType

SupportedContentType ==
    EffectiveContentType \in {"application/protobuf", "application/json"}

\* C26: a request whose content type is unsupported is answered 415, one
\* whose body cannot be read or decoded 400, one whose event cannot be
\* classified 400, and in none of these cases is the propagator invoked.
C26_RejectedNeverPropagated ==
    /\ (http.pc # "none" /\ ~SupportedContentType) => http.calls = 0
    /\ (http.pc # "none" /\ ~http.body.readable) => http.calls = 0
    /\ (http.pc # "none" /\ http.body.format # EffectiveContentType)
       => http.calls = 0
    /\ (http.pc # "none" /\ parsed # NotParsed /\ parsed.kind = "error")
       => http.calls = 0
    /\ (Responded /\ ~SupportedContentType /\ http.body.readable)
       => http.status = 415
    /\ (Responded /\ ~SupportedContentType /\ ~http.body.readable)
       => http.status \in {400, 415}
    /\ (Responded /\ SupportedContentType
            /\ (~http.body.readable \/ http.body.format # EffectiveContentType))
       => http.status = 400
    /\ (Responded /\ parsed # NotParsed /\ parsed.kind = "error")
       => http.status = 400

\* A decoded payload without any image was answered 400 without a call of
\* the propagator.
C26_Witness ==
    /\ Responded
    /\ parsed # NotParsed /\ parsed.kind = "error"
    /\ ~raw.event.value /\ ~raw.event.old
    /\ http.status = 400 /\ http.calls = 0

\* C27: the event time handed to the classifier is the ce-time header value
\* if the header parses and is strictly earlier than the wall clock at
\* intake, and the wall clock otherwise; it is never later than the wall
\* clock.
C27_EventTimeNotInFuture ==
    (http.pc # "none" /\ raw # NoRaw)
    => /\ raw.eventTime =
            IF http.ceTime.kind = "time" /\ http.ceTime.t < http.now
            THEN http.ceTime.t
            ELSE http.now
       /\ raw.eventTime <= http.now
       /\ (parsed # NotParsed /\ parsed.kind = "event" /\ ~raw.event.value)
          => parsed.t = raw.eventTime

\* A delete arrived with a ce-time later than the wall clock and was
\* classified with the wall clock as its timestamp.
C27_Witness ==
    /\ http.pc # "none" /\ raw # NoRaw
    /\ http.ceTime.kind = "time" /\ http.ceTime.t > http.now
    /\ parsed # NotParsed /\ parsed.kind = "event"
    /\ parsed.type = EventTypeDeleted
    /\ parsed.t = http.now

(***************************************************************************)
(* Tombstone ids.                                                          *)
(***************************************************************************)

\* The part of a document name after its first /documents/.
AfterDocuments(name) ==
    SubSeq(name, Index(name, documentsInfix, 1) + Len(documentsInfix), Len(name))

HasDocuments(name) == Index(name, documentsInfix, 1) # 0

\* C28: the _firesync collection never holds two tombstones of the same
\* document path; Tombstone.ID() is TombstoneID of the path after
\* /documents/, the same for every project and database, and is the id the
\* tombstone is stored under; it panics for a nil reference and for a
\* reference without /documents/.
C28_OneTombstonePerPath ==
    /\ \A r1, r2 \in collection :
          AfterDocuments(r1.Document.Path) = AfterDocuments(r2.Document.Path)
          => r1 = r2
    /\ \A r \in collection :
          Tombstone_ID([Document |-> r.Document]) = Returned(r.id)
    /\ idcall # NoCall
       => IF idcall.t.Document.nil \/ ~HasDocuments(idcall.t.Document.Path)
          THEN idcall.out.panic
          ELSE /\ ~idcall.out.panic
               /\ idcall.out.id =
                    TombstoneID(AfterDocuments(idcall.t.Document.Path))
               /\ \A name \in DeleteNames :
                    AfterDocuments(name) = AfterDocuments(idcall.t.Document.Path)
                    => Tombstone_ID([Document |-> DocumentRef(name)]) = idcall.out

(***************************************************************************)
(* Metrics.                                                                *)
(***************************************************************************)

\* Worker w's call of Propagate returns in this step.
Returns(w) == wk[w].pc = "idle" /\ wk'[w].pc = "returned"

\* The step counts each returning call once under its result.
CountedOnce ==
    \A w \in Workers :
        Returns(w)
        => /\ wk'[w].result \in DOMAIN metrics
           /\ \A r \in DOMAIN metrics :
                metrics'[r] =
                    metrics[r] + (IF r = wk'[w].result THEN 1 ELSE 0)

CountedOnlyByCalls ==
    (metrics' # metrics) => \E w \in Workers : Returns(w)

\* C29: every call of Propagate adds exactly one to the propagation event
\* counter, under the result attribute equal to the result it returns, on
\* the invalid-name, the skipped and the success return path; the counter
\* changes in no other step.
C29_CountedOncePerCall ==
    [][CountedOnce /\ CountedOnlyByCalls]_vars

\* Three calls returned: one on each return path.
C29_Witness ==
    /\ metrics[PropagationResultError] = 1
    /\ metrics[PropagationResultSkipped] = 1
    /\ metrics[PropagationResultSuccess] = 1
    /\ \E w \in Workers :
          wk[w].pc = "returned" /\ wk[w].branch = "invalidName"
                                /\ wk[w].result = PropagationResultError

(***************************************************************************)
(* The wire message.                                                       *)
(***************************************************************************)

\* C30: every published message has an event-type among created, updated
\* and deleted, and its event-type and event-time are the type and the
\* timestamp of one propagated event; no message has the event-type
\* replicated or tombstone.
C30_MessageAttributes ==
    \A m \in topic :
        /\ m.type \in {"created", "updated", "deleted"}
        /\ m.type \notin {"replicated", "tombstone"}
        /\ \E e \in pending : e.type = m.type /\ e.t = m.time
        /\ \A w \in Workers :
              (wk[w].pc = "ack" /\ wk[w].pubs = 1)
              => [type |-> wk[w].ev.type, time |-> wk[w].ev.t] \in topic

\* A created and a deleted message are on the topic while replicated and
\* tombstone events were emitted.
C30_Witness ==
    /\ \E m \in topic : m.type = "created"
    /\ \E m \in topic : m.type = "deleted"
    /\ \E e \in pending : e.type = EventTypeReplicated
    /\ \E e \in pending : e.type = EventTypeTombstone

\* Worker w's transaction commits in this step.
Commits(w) == wk[w].pc = "commit" /\ wk'[w].pc \in {"publish", "idle"}

\* C31: publishing happens only after the transaction committed, never in
\* the closure: however often the datastore re-runs the closure, a run of
\* the closure and a refused commit leave the topic alone, one Propagate call
\* publishes at most one message, and the decision it acts on after the
\* commit is the one the closure computes on the state it committed against.
C31_PublishAfterCommitOnly ==
    [][\A w \in Workers :
        /\ wk[w].pc \in {"tx", "commit"} /\ wk'[w] # wk[w] => topic' = topic
        /\ wk'[w].pubs <= 1
        /\ wk'[w].pubs > wk[w].pubs => wk[w].pc = "publish" /\ wk[w].publish
        /\ Commits(w) =>
              /\ wk'[w].publish = process(doc, tomb, clock + 1, wk[w].ev).publish
              /\ wk'[w].pc = "publish" <=> wk'[w].publish]_vars

\* A call whose closure ran three times: the first run decided to publish and
\* the second not to, both commits were refused, the third run committed and
\* the call published its one message.
C31_Witness ==
    \E w \in Workers :
        /\ wk[w].attempts = 3
        /\ wk[w].aborted = {TRUE, FALSE}
        /\ wk[w].pc = "idle" /\ wk[w].result = PropagationResultSuccess
        /\ wk[w].pubs = 1

\* The document exists again and carries no _firesync timestamp.
Unstamped == doc.exists /\ doc.meta = 0

\* C32: the transaction of a Deleted event with timestamp t, run while the
\* document exists again without a _firesync timestamp, takes the document's
\* timestamp to be t, so it does not treat the document as newer, and it
\* deletes the document instead of preserving it.
C32_UnstampedDocumentDeleted ==
    [][\A w \in Workers :
          (TxStep(w) /\ wk[w].ev.type = EventTypeDeleted /\ Unstamped)
          => /\ ObservedTimestamp(doc, wk[w].ev) = wk[w].ev.t
             /\ wk'[w].branch # "newerDocument"
             /\ ~doc'.exists]_vars

\* The change event of a write the core made itself.
SelfInduced(e) == e.by \notin {"user", "none"}

\* The change events of the _firesync stamp, of a tombstone create or update,
\* and of the deletion of a stale document that lost to a newer tombstone.
StampEvent(e) == e.by = "stamped"
TombstoneEvent(e) == SelfInduced(e) /\ e.type = EventTypeTombstone
StaleDeleteEvent(e) == e.by = "staleDeleted" /\ e.type = EventTypeDeleted

\* The call worker w runs, or ran last, published nothing and does not
\* return Success.
NothingPublished(w) ==
    /\ wk[w].pc \notin {"publish", "ack"}
    /\ wk[w].pubs = 0
    /\ wk[w].result # PropagationResultSuccess

C34_TombstoneTimestampMonotonic ==
    [][/\ tomb.exists => tomb'.exists /\ tomb'.ts >= tomb.ts
       /\ tomb' # tomb =>
             \E w \in Workers :
                /\ TxStep(w) /\ wk[w].ev.type = EventTypeDeleted
                /\ tomb'.ts = wk[w].ev.t]_vars

\* One Deleted event wrote the tombstone and a later one replaced its
\* timestamp with a strictly greater value.
C34_Witness ==
    \E w, v \in Workers :
        /\ wk[v].branch \in {"tombstoneCreated", "tombstoneUpdated"}
        /\ wk[w].branch = "tombstoneUpdated"
        /\ wk[v].ev.t < wk[w].ev.t
        /\ tomb.exists /\ tomb.ts = wk[w].ev.t

\* C35: in ParseEvent the tombstone-path check comes before the update
\* checks: a payload with both images whose document lies under _firesync/
\* is classified Tombstone, with the new image's update time, whatever its
\* update mask is (absent, empty, user fields, _firesync fields): the outcome
\* does not mention the mask, and it is neither an error nor Updated nor
\* Replicated.
C35_TombstoneBeforeUpdateChecks ==
    (Classified /\ UnderTombstoneCollection
        /\ raw.event.value /\ raw.event.old)
    => parsed = ParsedEvent(EventTypeTombstone,
                            NewDocumentFromPath(raw.event.name), raw.event.ut)

\* An update of a tombstone document whose payload has no update mask was
\* classified Tombstone.
C35_Witness ==
    /\ Classified /\ UnderTombstoneCollection
    /\ raw.event.value /\ raw.event.old /\ ~raw.event.mask.present
    /\ parsed.kind = "event" /\ parsed.type = EventTypeTombstone
    /\ parsed.t = raw.event.ut

\* C36: for a full document name that NewDocumentFromPath accepts,
\* Tombstone.ID() of the tombstone of that document is TombstoneID of the
\* Path that NewDocumentFromPath returns: both split the name at the same
\* /documents/.
C36_SameSplitPoint ==
    (idcall # NoCall /\ ~idcall.t.Document.nil
        /\ ~NewDocumentFromPath(idcall.t.Document.Path).nil)
    => idcall.out =
          Returned(TombstoneID(NewDocumentFromPath(idcall.t.Document.Path).Path))

\* C37: when Stop has ended, the functions it ran are the functions
\* registered when it was called, each once, newest first, whether or not
\* some of them failed, and it returned the join of their errors (nil only
\* if none failed); when newService fails, Stop has run this way over the
\* functions registered so far before the error is returned, joined with
\* Stop's.
StopEnded == svc.stop.pc \in {"done", "panic"}

C37_StopRunsAllInReverse ==
    /\ StopEnded =>
          /\ svc.stop.pc = "done"
          /\ svc.stop.ran = Reverse(svc.stop.entry)
          /\ \A k \in 1..Len(svc.stop.ret) :
                \E j \in 1..Len(svc.stop.ran) : svc.stop.ran[j] = svc.stop.ret[k]
    /\ svc.main = "failed" =>
          /\ svc.stop.pc = "done"
          /\ svc.stop.ran = Reverse(svc.reg)
          /\ svc.err = Join(svc.cause, svc.stop.ret)
          /\ svc.err # <<>>
====
